---------------------------- MODULE Spec2Model ----------------------------
(***************************************************************************)
(* Hours-of-Service engine of the trucking logistics backend:              *)
(*   hos_compliance/services/hos_calculator.py      (HOSCalculatorService) *)
(*   hos_compliance/services/rest_break_planner.py  (RestBreakPlannerService)*)
(*   hos_compliance/services/compliance_validator.py                       *)
(*   eld_logs/services/daily_log_generator.py       (DailyLogGeneratorService)*)
(*                                                                         *)
(* Decimal hours and miles are integers counted in ticks of 1/110000:      *)
(* every four-decimal value (8.0001) and every fuel-stop hour mark         *)
(* (k * 1000 / 55) is a whole number of ticks.  float() is order           *)
(* preserving on these values and is not modelled further.  Clock times    *)
(* of the daily-log generator are whole minutes since day 0, 00:00.        *)
(***************************************************************************)
EXTENDS Integers, Sequences, FiniteSets, TLC

Hour == 11 * 10000
HalfHour == Hour \div 2

Max(a, b) == IF a >= b THEN a ELSE b
Min(a, b) == IF a <= b THEN a ELSE b
Abs(a) == IF a < 0 THEN 0 - a ELSE a

(***************************************************************************)
(* HOSCalculatorService: regulation constants                              *)
(***************************************************************************)
MAX_CYCLE_HOURS == 70 * Hour
MAX_DUTY_PERIOD_HOURS == 14 * Hour
MAX_DRIVING_HOURS == 11 * Hour
BREAK_REQUIRED_AFTER_HOURS == 8 * Hour
MIN_OFF_DUTY_HOURS == 10 * Hour
RESTART_OFF_DUTY_HOURS == 34 * Hour

VARIABLES
    \* trip data and driver status handed to the services
    total_distance_miles,
    estimated_driving_hours,
    current_cycle_hours,
    current_duty_period_hours,
    current_driving_hours,
    hours_since_last_break,
    \* HOSCalculatorService: what the last call of each method returned
    available,
    hos_compliance,
    \* HOSCalculatorService.calculate_required_rest: its needs_30_minute_break
    \* argument and what it returned
    needs_30_minute_break,
    required_rest,
    \* RestBreakPlannerService.plan_30_minute_breaks: its frame (pc, locals and
    \* the number of passes through the while loop)
    p30,
    \* RestBreakPlannerService: what plan_trip_breaks returned; the break list
    \* handed to _validate_break_plan_compliance and what it returned
    trip_break_plan,
    breaks_arg,
    plan_compliance,
    \* RestBreakPlannerService._optimize_break_schedule: what it returned for
    \* breaks_arg (which it sorts in place)
    optimized,
    \* timezone.now() as the calculator reads it, in clock ticks, and the result
    \* of the call of calculate_available_hours before the latest one
    now,
    previous_available,
    \* the HOSStatus row of the trip, if there is one
    hos_status,
    \* RestBreakPlannerService.plan_trip_breaks run step by step: its frame (pc,
    \* the break lists built so far, the outcome)
    ptb,
    \* ComplianceValidatorService: what validate_trip_compliance returned
    trip_compliance,
    \* ComplianceValidatorService: what _validate_trip_start_eligibility returned
    start_eligibility,
    \* ComplianceValidatorService: what validate_driver_eligibility returned
    driver_eligibility,
    \* DailyLogGeneratorService.generate_trip_daily_logs: the trip's start time
    \* and route, the timeline, the dates and the daily logs created so far
    trip_start_time,
    route,
    trip_timeline,
    daily_log_dates,
    daily_logs,
    log_pc

inputVars == <<total_distance_miles, estimated_driving_hours, current_cycle_hours,
               current_duty_period_hours, current_driving_hours,
               hours_since_last_break>>
calcVars == <<available, hos_compliance, needs_30_minute_break, required_rest, now,
              previous_available, hos_status>>
plannerVars == <<trip_break_plan, breaks_arg, plan_compliance, optimized, ptb,
                 trip_compliance>>
logVars == <<trip_start_time, route, trip_timeline, daily_log_dates, daily_logs, log_pc>>
validatorVars == <<start_eligibility, driver_eligibility>>
vars == <<inputVars, calcVars, p30, plannerVars, validatorVars, logVars>>

\* A method that has not been called; a call that raised.
NotCalled == [status |-> "not_called"]
Raised(error, message) == [status |-> "raised", error |-> error, message |-> message]

(***************************************************************************)
(* HOSCalculatorService                                                    *)
(***************************************************************************)

\* Mutant of _validate_hours_input: driving hours are not compared with duty hours.
ValidateHoursInputUnordered(cycle_hours, duty_hours, driving_hours, break_hours) ==
    IF cycle_hours < 0 \/ cycle_hours > 100 * Hour THEN "Invalid cycle hours"
    ELSE IF duty_hours < 0 \/ duty_hours > 24 * Hour THEN "Invalid duty period hours"
    ELSE IF driving_hours < 0 THEN "Invalid driving hours"
    ELSE IF break_hours < 0 \/ break_hours > 24 * Hour THEN "Invalid hours since break"
    ELSE ""

\* _validate_hours_input: the message of the ValueError raised, "" when none.
ValidateHoursInput(cycle_hours, duty_hours, driving_hours, break_hours) ==
    IF cycle_hours < 0 \/ cycle_hours > 100 * Hour THEN "Invalid cycle hours"
    ELSE IF duty_hours < 0 \/ duty_hours > 24 * Hour THEN "Invalid duty period hours"
    ELSE IF driving_hours < 0 \/ driving_hours > duty_hours THEN "Invalid driving hours"
    ELSE IF break_hours < 0 \/ break_hours > 24 * Hour THEN "Invalid hours since break"
    ELSE ""

\* Mutant of _check_can_drive: the duty-period test is made after the driving test.
CheckCanDriveReordered(available_cycle, available_duty, available_driving, hours_until_break) ==
    IF available_cycle <= 0
    THEN [can_drive |-> FALSE, violation_reason |-> "70-hour/8-day limit reached"]
    ELSE IF available_driving <= 0
    THEN [can_drive |-> FALSE, violation_reason |-> "11-hour driving limit reached"]
    ELSE IF available_duty <= 0
    THEN [can_drive |-> FALSE, violation_reason |-> "14-hour duty period limit reached"]
    ELSE IF hours_until_break <= 0
    THEN [can_drive |-> FALSE,
          violation_reason |-> "30-minute break required after 8 hours driving"]
    ELSE [can_drive |-> TRUE, violation_reason |-> ""]

\* _check_can_drive
CheckCanDrive(available_cycle, available_duty, available_driving, hours_until_break) ==
    IF available_cycle <= 0
    THEN [can_drive |-> FALSE, violation_reason |-> "70-hour/8-day limit reached"]
    ELSE IF available_duty <= 0
    THEN [can_drive |-> FALSE, violation_reason |-> "14-hour duty period limit reached"]
    ELSE IF available_driving <= 0
    THEN [can_drive |-> FALSE, violation_reason |-> "11-hour driving limit reached"]
    ELSE IF hours_until_break <= 0
    THEN [can_drive |-> FALSE,
          violation_reason |-> "30-minute break required after 8 hours driving"]
    ELSE [can_drive |-> TRUE, violation_reason |-> ""]

\* _calculate_max_continuous_driving without the break headroom among its limits
CalculateMaxContinuousDrivingNoBreak(available_cycle, available_duty, available_driving, hours_until_break) ==
    Max(0, Min(Min(available_cycle, available_duty), available_driving))

\* _calculate_max_continuous_driving
CalculateMaxContinuousDriving(available_cycle, available_duty, available_driving, hours_until_break) ==
    IF hours_until_break > 0
    THEN Max(0, Min(Min(available_cycle, available_duty),
                    Min(available_driving, hours_until_break)))
    ELSE 0

\* calculate_available_hours without the floor of 0 under the headroom values
CalculateAvailableHoursUnfloored(cycle, duty, driving, since_break) ==
    LET invalid == ValidateHoursInput(cycle, duty, driving, since_break)
        available_cycle == MAX_CYCLE_HOURS - cycle
        available_duty_period == MAX_DUTY_PERIOD_HOURS - duty
        available_driving == MAX_DRIVING_HOURS - driving
        hours_until_break == BREAK_REQUIRED_AFTER_HOURS - since_break
        check == CheckCanDrive(available_cycle, available_duty_period,
                               available_driving, hours_until_break)
    IN  IF invalid # ""
        THEN Raised("HOSCalculationError", invalid)
        ELSE [status |-> "returned",
              can_drive |-> check.can_drive,
              violation_reason |-> check.violation_reason,
              available_hours |->
                  [cycle_hours |-> available_cycle,
                   duty_period_hours |-> available_duty_period,
                   driving_hours |-> available_driving,
                   hours_until_break |-> hours_until_break],
              current_usage |->
                  [cycle_hours |-> cycle,
                   duty_period_hours |-> duty,
                   driving_hours |-> driving,
                   hours_since_last_break |-> since_break],
              max_continuous_driving_hours |->
                  CalculateMaxContinuousDriving(available_cycle, available_duty_period,
                                                available_driving, hours_until_break)]

\* calculate_available_hours
CalculateAvailableHours(cycle, duty, driving, since_break) ==
    LET invalid == ValidateHoursInput(cycle, duty, driving, since_break)
        available_cycle == Max(0, MAX_CYCLE_HOURS - cycle)
        available_duty_period == Max(0, MAX_DUTY_PERIOD_HOURS - duty)
        available_driving == Max(0, MAX_DRIVING_HOURS - driving)
        hours_until_break == Max(0, BREAK_REQUIRED_AFTER_HOURS - since_break)
        check == CheckCanDrive(available_cycle, available_duty_period,
                               available_driving, hours_until_break)
    IN  IF invalid # ""
        THEN Raised("HOSCalculationError", invalid)
        ELSE [status |-> "returned",
              can_drive |-> check.can_drive,
              violation_reason |-> check.violation_reason,
              available_hours |->
                  [cycle_hours |-> available_cycle,
                   duty_period_hours |-> available_duty_period,
                   driving_hours |-> available_driving,
                   hours_until_break |-> hours_until_break],
              current_usage |->
                  [cycle_hours |-> cycle,
                   duty_period_hours |-> duty,
                   driving_hours |-> driving,
                   hours_since_last_break |-> since_break],
              max_continuous_driving_hours |->
                  CalculateMaxContinuousDriving(available_cycle, available_duty_period,
                                                available_driving, hours_until_break)]

\* The dictionary calculate_available_hours returns when timezone.now() reads
\* clock: the computed fields, the limits and calculated_at (lines 106-131).
CalculateAvailableHoursAt(cycle, duty, driving, since_break, clock) ==
    LET computed == CalculateAvailableHours(cycle, duty, driving, since_break)
    IN  IF computed.status = "returned"
        THEN [status |-> "returned",
              can_drive |-> computed.can_drive,
              violation_reason |-> computed.violation_reason,
              available_hours |-> computed.available_hours,
              limits |->
                  [max_cycle_hours |-> MAX_CYCLE_HOURS,
                   max_duty_period_hours |-> MAX_DUTY_PERIOD_HOURS,
                   max_driving_hours |-> MAX_DRIVING_HOURS,
                   break_required_after_hours |-> BREAK_REQUIRED_AFTER_HOURS],
              current_usage |-> computed.current_usage,
              max_continuous_driving_hours |-> computed.max_continuous_driving_hours,
              calculated_at |-> clock]
        ELSE computed

\* _calculate_compliance_score taking 20 points for a violation
CalculateComplianceScoreTwenty(violations, warnings) ==
    Max(0, Min(100, 100 - Len(violations) * 20 - Len(warnings) * 5))

\* _calculate_compliance_score
CalculateComplianceScore(violations, warnings) ==
    Max(0, Min(100, 100 - Len(violations) * 25 - Len(warnings) * 5))

\* validate_hos_compliance (no input validation: every value is judged)
ValidateHosCompliance(cycle, duty, driving, since_break) ==
    LET cycle_violation ==
            IF cycle > MAX_CYCLE_HOURS
            THEN <<[type |-> "cycle_hours_exceeded", regulation |-> "395.3(b)",
                    hours_over |-> cycle - MAX_CYCLE_HOURS]>>
            ELSE <<>>
        cycle_warning ==
            IF ~(cycle > MAX_CYCLE_HOURS) /\ cycle >= MAX_CYCLE_HOURS - 5 * Hour
            THEN <<[type |-> "approaching_cycle_limit",
                    hours_remaining |-> MAX_CYCLE_HOURS - cycle]>>
            ELSE <<>>
        duty_violation ==
            IF duty > MAX_DUTY_PERIOD_HOURS
            THEN <<[type |-> "duty_period_exceeded", regulation |-> "395.3(a)(2)",
                    hours_over |-> duty - MAX_DUTY_PERIOD_HOURS]>>
            ELSE <<>>
        driving_violation ==
            IF driving > MAX_DRIVING_HOURS
            THEN <<[type |-> "driving_hours_exceeded", regulation |-> "395.3(a)(3)",
                    hours_over |-> driving - MAX_DRIVING_HOURS]>>
            ELSE <<>>
        break_violation ==
            IF since_break > BREAK_REQUIRED_AFTER_HOURS
            THEN <<[type |-> "break_required", regulation |-> "395.3(a)(3)(ii)",
                    hours_over |-> since_break - BREAK_REQUIRED_AFTER_HOURS]>>
            ELSE <<>>
        break_warning ==
            IF ~(since_break > BREAK_REQUIRED_AFTER_HOURS)
               /\ since_break >= BREAK_REQUIRED_AFTER_HOURS - 1 * Hour
            THEN <<[type |-> "break_needed_soon",
                    hours_until_required |-> BREAK_REQUIRED_AFTER_HOURS - since_break]>>
            ELSE <<>>
        violations == cycle_violation \o duty_violation \o driving_violation
                      \o break_violation
        warnings == cycle_warning \o break_warning
    IN  [status |-> "returned",
         is_compliant |-> Len(violations) = 0,
         compliance_score |-> CalculateComplianceScore(violations, warnings),
         violations |-> violations,
         warnings |-> warnings,
         total_violations |-> Len(violations),
         total_warnings |-> Len(warnings),
         can_continue_driving |-> Len(violations) = 0]


\* calculate_required_rest whose minimum looks at the daily limits first
CalculateRequiredRestDailyFirst(cycle, duty, driving, needs_break) ==
    LET daily == driving >= MAX_DRIVING_HOURS \/ duty >= MAX_DUTY_PERIOD_HOURS
    IN  [status |-> "returned",
         minimum_required_rest_hours |->
             IF daily THEN MIN_OFF_DUTY_HOURS ELSE IF needs_break THEN HalfHour ELSE 0,
         required_rest_type |->
             IF daily THEN "10_hour_off_duty"
             ELSE IF needs_break THEN "30_minute_break" ELSE "None",
         rest_options |->
             (IF needs_break
              THEN <<[type |-> "30_minute_break", duration_hours |-> HalfHour,
                      regulation |-> "395.3(a)(3)(ii)"]>>
              ELSE <<>>)
             \o (IF daily
                 THEN <<[type |-> "10_hour_off_duty", duration_hours |-> MIN_OFF_DUTY_HOURS,
                         regulation |-> "395.3(a)(1)"]>>
                 ELSE <<>>)
             \o (IF cycle >= 60 * Hour
                 THEN <<[type |-> "34_hour_restart",
                         duration_hours |-> RESTART_OFF_DUTY_HOURS,
                         regulation |-> "395.3(c)"]>>
                 ELSE <<>>),
         can_drive_after_minimum_rest |-> TRUE]

\* calculate_required_rest (no input validation; required_rest_type None is
\* the string "None")
CalculateRequiredRest(cycle, duty, driving, needs_break) ==
    LET daily == driving >= MAX_DRIVING_HOURS \/ duty >= MAX_DUTY_PERIOD_HOURS
    IN  [status |-> "returned",
         minimum_required_rest_hours |->
             IF needs_break THEN HalfHour ELSE IF daily THEN MIN_OFF_DUTY_HOURS ELSE 0,
         required_rest_type |->
             IF needs_break THEN "30_minute_break"
             ELSE IF daily THEN "10_hour_off_duty" ELSE "None",
         rest_options |->
             (IF needs_break
              THEN <<[type |-> "30_minute_break", duration_hours |-> HalfHour,
                      regulation |-> "395.3(a)(3)(ii)"]>>
              ELSE <<>>)
             \o (IF daily
                 THEN <<[type |-> "10_hour_off_duty", duration_hours |-> MIN_OFF_DUTY_HOURS,
                         regulation |-> "395.3(a)(1)"]>>
                 ELSE <<>>)
             \o (IF cycle >= 60 * Hour
                 THEN <<[type |-> "34_hour_restart",
                         duration_hours |-> RESTART_OFF_DUTY_HOURS,
                         regulation |-> "395.3(c)"]>>
                 ELSE <<>>),
         can_drive_after_minimum_rest |-> TRUE]

\* calculate_cycle_hours_for_trip counting a projection equal to the limit as
\* exceeding it
CalculateCycleHoursForTripAtLimit(driving_hours, cycle) ==
    LET pickup_dropoff_hours == 2 * Hour
        estimated_total_hours == driving_hours + pickup_dropoff_hours
        projected_cycle_hours == cycle + estimated_total_hours
        exceeds_cycle_limit == projected_cycle_hours >= MAX_CYCLE_HOURS
    IN  [status |-> "returned",
         current_cycle_hours |-> cycle,
         estimated_trip_hours |-> estimated_total_hours,
         estimated_driving_hours |-> driving_hours,
         estimated_pickup_dropoff_hours |-> pickup_dropoff_hours,
         projected_cycle_hours |-> projected_cycle_hours,
         cycle_limit |-> MAX_CYCLE_HOURS,
         exceeds_cycle_limit |-> exceeds_cycle_limit,
         max_possible_trip_hours |-> MAX_CYCLE_HOURS - cycle,
         requires_34_hour_restart |-> exceeds_cycle_limit,
         hours_over_limit |-> Max(0, projected_cycle_hours - MAX_CYCLE_HOURS)]

\* calculate_cycle_hours_for_trip
CalculateCycleHoursForTrip(driving_hours, cycle) ==
    LET pickup_dropoff_hours == 2 * Hour
        estimated_total_hours == driving_hours + pickup_dropoff_hours
        projected_cycle_hours == cycle + estimated_total_hours
        exceeds_cycle_limit == projected_cycle_hours > MAX_CYCLE_HOURS
    IN  [status |-> "returned",
         current_cycle_hours |-> cycle,
         estimated_trip_hours |-> estimated_total_hours,
         estimated_driving_hours |-> driving_hours,
         estimated_pickup_dropoff_hours |-> pickup_dropoff_hours,
         projected_cycle_hours |-> projected_cycle_hours,
         cycle_limit |-> MAX_CYCLE_HOURS,
         exceeds_cycle_limit |-> exceeds_cycle_limit,
         max_possible_trip_hours |-> MAX_CYCLE_HOURS - cycle,
         requires_34_hour_restart |-> exceeds_cycle_limit,
         hours_over_limit |-> Max(0, projected_cycle_hours - MAX_CYCLE_HOURS)]

(***************************************************************************)
(* RestBreakPlannerService                                                 *)
(***************************************************************************)
FUEL_STOP_INTERVAL_MILES == 1000 * Hour
PICKUP_DROPOFF_HOURS == 1 * Hour
AVERAGE_DRIVING_SPEED_MPH == 55

\* The break dictionary plan_30_minute_breaks appends (lines 160-174).
ThirtyMinuteBreak(driving_hours_completed) ==
    [break_type |-> "30_minute",
     duration_hours |-> HalfHour,
     required_at_driving_hours |-> driving_hours_completed,
     required_at_trip_miles |-> driving_hours_completed * AVERAGE_DRIVING_SPEED_MPH,
     is_mandatory |-> TRUE,
     regulation_reference |-> "395.3(a)(3)(ii)",
     priority |-> "critical",
     reason |-> <<"30-minute rest break after 8 hours driving">>]

\* The locals of plan_30_minute_breaks before its while loop (lines 148-151).
ThirtyMinuteLocals(driving_hours, since_break) ==
    [breaks |-> <<>>,
     remaining_hours |-> driving_hours,
     current_driving_hours |-> since_break,
     driving_hours_completed |-> 0]

\* Mutant of the loop body: the break is recorded after the segment that follows
\* it has been driven.
ThirtyMinuteLoopBodyLate(f) ==
    LET break_needed == f.current_driving_hours >= BREAK_REQUIRED_AFTER_HOURS
        counter == IF break_needed THEN 0 ELSE f.current_driving_hours
        hours_until_next_break ==
            Min(f.remaining_hours, BREAK_REQUIRED_AFTER_HOURS - counter)
    IN  [breaks |-> IF break_needed
                    THEN Append(f.breaks,
                                ThirtyMinuteBreak(f.driving_hours_completed
                                                  + hours_until_next_break))
                    ELSE f.breaks,
         remaining_hours |-> f.remaining_hours - hours_until_next_break,
         current_driving_hours |-> counter + hours_until_next_break,
         driving_hours_completed |-> f.driving_hours_completed + hours_until_next_break]

\* Mutant of the loop body: the counter is not reset after a break.
ThirtyMinuteLoopBodyNoReset(f) ==
    LET break_needed == f.current_driving_hours >= BREAK_REQUIRED_AFTER_HOURS
        counter == f.current_driving_hours
        hours_until_next_break ==
            Min(f.remaining_hours, BREAK_REQUIRED_AFTER_HOURS - counter)
    IN  [breaks |-> IF break_needed
                    THEN Append(f.breaks, ThirtyMinuteBreak(f.driving_hours_completed))
                    ELSE f.breaks,
         remaining_hours |-> f.remaining_hours - hours_until_next_break,
         current_driving_hours |-> counter + hours_until_next_break,
         driving_hours_completed |-> f.driving_hours_completed + hours_until_next_break]

\* One pass through the body of the while loop (lines 154-188).
ThirtyMinuteLoopBody(f) ==
    LET break_needed == f.current_driving_hours >= BREAK_REQUIRED_AFTER_HOURS
        counter == IF break_needed THEN 0 ELSE f.current_driving_hours
        hours_until_next_break ==
            Min(f.remaining_hours, BREAK_REQUIRED_AFTER_HOURS - counter)
    IN  [breaks |-> IF break_needed
                    THEN Append(f.breaks, ThirtyMinuteBreak(f.driving_hours_completed))
                    ELSE f.breaks,
         remaining_hours |-> f.remaining_hours - hours_until_next_break,
         current_driving_hours |-> counter + hours_until_next_break,
         driving_hours_completed |-> f.driving_hours_completed + hours_until_next_break]

RECURSIVE ThirtyMinuteLoop(_)
ThirtyMinuteLoop(f) ==
    IF f.remaining_hours > 0 THEN ThirtyMinuteLoop(ThirtyMinuteLoopBody(f)) ELSE f

\* plan_30_minute_breaks, run to its return
Plan30MinuteBreaks(driving_hours, since_break) ==
    ThirtyMinuteLoop(ThirtyMinuteLocals(driving_hours, since_break)).breaks

TenHourBreak(at_hours, reason) ==
    [break_type |-> "10_hour",
     duration_hours |-> MIN_OFF_DUTY_HOURS,
     required_at_driving_hours |-> at_hours,
     required_at_trip_miles |-> at_hours * AVERAGE_DRIVING_SPEED_MPH,
     is_mandatory |-> TRUE,
     regulation_reference |-> "395.3(a)(1)",
     priority |-> "critical",
     reason |-> <<reason>>]

\* plan_daily_rest_periods adding its second rest when exactly 11 hours remain
PlanDailyRestPeriodsSecondAtLimit(driving_hours, duty_hours, driving_so_far) ==
    LET available_duty_hours == MAX_DUTY_PERIOD_HOURS - duty_hours
        available_driving_hours == MAX_DRIVING_HOURS - driving_so_far
        hours_before_rest == Min(available_driving_hours, available_duty_hours)
    IN  IF driving_hours > available_driving_hours
           \/ driving_hours + duty_hours > MAX_DUTY_PERIOD_HOURS
        THEN <<TenHourBreak(hours_before_rest,
                   "10 consecutive hours off duty to reset daily limits")>>
             \o (IF driving_hours - hours_before_rest >= MAX_DRIVING_HOURS
                 THEN <<TenHourBreak(hours_before_rest + MAX_DRIVING_HOURS,
                            "10 consecutive hours off duty for second duty period")>>
                 ELSE <<>>)
        ELSE <<>>

\* plan_daily_rest_periods
PlanDailyRestPeriods(driving_hours, duty_hours, driving_so_far) ==
    LET available_duty_hours == MAX_DUTY_PERIOD_HOURS - duty_hours
        available_driving_hours == MAX_DRIVING_HOURS - driving_so_far
        driving_remaining == driving_hours
        hours_before_rest == Min(available_driving_hours, available_duty_hours)
        remaining_after_rest == driving_remaining - hours_before_rest
    IN  IF driving_remaining > available_driving_hours
           \/ driving_remaining + duty_hours > MAX_DUTY_PERIOD_HOURS
        THEN <<TenHourBreak(hours_before_rest,
                   "10 consecutive hours off duty to reset daily limits")>>
             \o (IF remaining_after_rest > MAX_DRIVING_HOURS
                 THEN <<TenHourBreak(hours_before_rest + MAX_DRIVING_HOURS,
                            "10 consecutive hours off duty for second duty period")>>
                 ELSE <<>>)
        ELSE <<>>

\* The break dictionary _plan_mandatory_hos_breaks appends (lines 373-383).
RestartBreak ==
    [break_type |-> "34_hour_restart",
     duration_hours |-> RESTART_OFF_DUTY_HOURS,
     required_at_driving_hours |-> 0,
     required_at_trip_miles |-> 0,
     is_mandatory |-> TRUE,
     regulation_reference |-> "395.3(c)",
     priority |-> "critical",
     reason |-> <<"34-hour restart required to reset 8-day cycle before trip">>]

\* _plan_mandatory_hos_breaks
PlanMandatoryHosBreaks(driving_hours, cycle, duty_hours, driving_so_far, since_break) ==
    LET pickup_dropoff_hours == 2 * PICKUP_DROPOFF_HOURS
        total_trip_hours == driving_hours + pickup_dropoff_hours
    IN  Plan30MinuteBreaks(driving_hours, since_break)
        \o PlanDailyRestPeriods(driving_hours, duty_hours, driving_so_far)
        \o (IF cycle + total_trip_hours > MAX_CYCLE_HOURS
            THEN <<RestartBreak>> ELSE <<>>)

\* The break dictionary _plan_fuel_stops appends for its i-th stop (lines 398-413).
FuelStop(i) ==
    [break_type |-> "fuel_stop",
     duration_hours |-> HalfHour,
     required_at_driving_hours |->
         (i * FUEL_STOP_INTERVAL_MILES) \div AVERAGE_DRIVING_SPEED_MPH,
     required_at_trip_miles |-> i * FUEL_STOP_INTERVAL_MILES,
     is_mandatory |-> FALSE,
     regulation_reference |-> "",
     priority |-> "medium",
     reason |-> <<"Fuel stop">>]

\* _plan_fuel_stops with a stop at the end of every started 1000 miles
PlanFuelStopsEveryStarted(distance, driving_hours) ==
    IF distance > FUEL_STOP_INTERVAL_MILES
    THEN [i \in 1..(distance \div FUEL_STOP_INTERVAL_MILES + 1) |-> FuelStop(i)]
    ELSE <<>>

\* _plan_fuel_stops
PlanFuelStops(distance, driving_hours) ==
    IF distance > FUEL_STOP_INTERVAL_MILES
    THEN [i \in 1..(distance \div FUEL_STOP_INTERVAL_MILES) |-> FuelStop(i)]
    ELSE <<>>

\* _plan_operational_stops
PlanOperationalStops ==
    <<[break_type |-> "pickup_dropoff",
       duration_hours |-> PICKUP_DROPOFF_HOURS,
       required_at_driving_hours |-> 0,
       required_at_trip_miles |-> 0,
       is_mandatory |-> TRUE,
       regulation_reference |-> "",
       priority |-> "high",
       reason |-> <<"Pickup time (1 hour per assessment)">>],
      [break_type |-> "pickup_dropoff",
       duration_hours |-> PICKUP_DROPOFF_HOURS,
       required_at_driving_hours |-> 0,
       required_at_trip_miles |-> 0,
       is_mandatory |-> TRUE,
       regulation_reference |-> "",
       priority |-> "high",
       reason |-> <<"Dropoff time (1 hour per assessment)">>]>>

\* _can_combine_breaks letting any two breaks other than rest periods combine
CanCombineBreaksAnyStop(break1, break2) ==
    /\ break1.break_type \notin {"10_hour", "34_hour_restart"}
    /\ break2.break_type \notin {"10_hour", "34_hour_restart"}

\* _can_combine_breaks
CanCombineBreaks(break1, break2) ==
    {break1.break_type, break2.break_type} = {"30_minute", "fuel_stop"}

PriorityRank(p) ==
    CASE p = "low" -> 1 [] p = "medium" -> 2 [] p = "high" -> 3
      [] p = "critical" -> 4 [] OTHER -> 2
PriorityName(n) ==
    CASE n = 1 -> "low" [] n = 2 -> "medium" [] n = 3 -> "high" [] OTHER -> "critical"

\* _combine_breaks
CombineBreaks(break1, break2) ==
    [break1 EXCEPT
        !.duration_hours = Max(break1.duration_hours, break2.duration_hours),
        !.reason = break1.reason \o break2.reason,
        !.break_type = "combined",
        !.priority = PriorityName(Max(PriorityRank(break1.priority),
                                      PriorityRank(break2.priority)))]

\* list.sort(key=required_at_driving_hours): stable, ascending
RECURSIVE InsertBreak(_, _)
InsertBreak(sorted, b) ==
    IF sorted = <<>> THEN <<b>>
    ELSE IF sorted[Len(sorted)].required_at_driving_hours <= b.required_at_driving_hours
    THEN Append(sorted, b)
    ELSE Append(InsertBreak(SubSeq(sorted, 1, Len(sorted) - 1), b), sorted[Len(sorted)])

RECURSIVE SortBreaks(_)
SortBreaks(breaks) ==
    IF breaks = <<>> THEN <<>>
    ELSE InsertBreak(SortBreaks(SubSeq(breaks, 1, Len(breaks) - 1)), breaks[Len(breaks)])

\* The inner while loop of _optimize_break_schedule (lines 461-477).
RECURSIVE AbsorbFollowing(_, _, _)
AbsorbFollowing(current_break, breaks, j) ==
    IF j <= Len(breaks)
       /\ Abs(breaks[j].required_at_driving_hours
              - current_break.required_at_driving_hours) <= HalfHour
       /\ CanCombineBreaks(current_break, breaks[j])
    THEN AbsorbFollowing(CombineBreaks(current_break, breaks[j]), breaks, j + 1)
    ELSE [current_break |-> current_break, j |-> j]

\* The outer while loop of _optimize_break_schedule (lines 456-480).
RECURSIVE OptimizeFrom(_, _)
OptimizeFrom(breaks, i) ==
    IF i > Len(breaks) THEN <<>>
    ELSE LET r == AbsorbFollowing(breaks[i], breaks, i + 1)
         IN  <<r.current_break>>
             \o OptimizeFrom(breaks, IF r.j > i + 1 THEN r.j ELSE i + 1)

\* _optimize_break_schedule
OptimizeBreakSchedule(breaks, total_driving_hours) ==
    OptimizeFrom(SortBreaks(breaks), 1)

RECURSIVE SumDurationHours(_)
SumDurationHours(breaks) ==
    IF breaks = <<>> THEN 0
    ELSE breaks[1].duration_hours + SumDurationHours(Tail(breaks))

\* sum(break_info["duration_hours"] ...): the int 0 for an empty list, a Decimal
\* as soon as one Decimal duration is added.
TotalBreakTime(breaks) ==
    [python_type |-> IF breaks = <<>> THEN "int" ELSE "Decimal",
     value |-> SumDurationHours(breaks)]

\* _calculate_trip_timeline: float(driving_hours) + total_break_time is a
\* TypeError when total_break_time is a Decimal.
CalculateTripTimeline(breaks, driving_hours) ==
    LET total_break_time == TotalBreakTime(breaks)
    IN  IF total_break_time.python_type = "Decimal"
        THEN Raised("TypeError",
                    "unsupported operand type(s) for +: 'float' and 'decimal.Decimal'")
        ELSE [status |-> "returned",
              total_time_hours |-> driving_hours + total_break_time.value,
              total_driving_time_hours |-> driving_hours,
              total_break_time_hours |-> total_break_time.value,
              number_of_breaks |-> Len(breaks)]

CountBreaks(breaks, types) ==
    Cardinality({k \in 1..Len(breaks) : breaks[k].break_type \in types})

\* _validate_break_plan_compliance
ValidateBreakPlanCompliance(breaks, driving_hours, cycle) ==
    LET thirty_min_breaks == CountBreaks(breaks, {"30_minute", "combined"})
        required_30_min_breaks == Max(1, driving_hours \div (8 * Hour))
        ten_hour_breaks == CountBreaks(breaks, {"10_hour"})
        required_10_hour_breaks == Max(1, (driving_hours - 1 * Hour) \div (11 * Hour))
        issues ==
            (IF thirty_min_breaks < required_30_min_breaks
             THEN <<[type |-> "insufficient_30_minute_breaks",
                     needed |-> required_30_min_breaks,
                     planned |-> thirty_min_breaks]>>
             ELSE <<>>)
            \o (IF driving_hours > 11 * Hour /\ ten_hour_breaks < required_10_hour_breaks
                THEN <<[type |-> "insufficient_10_hour_breaks",
                        needed |-> required_10_hour_breaks,
                        planned |-> ten_hour_breaks]>>
                ELSE <<>>)
    IN  [status |-> "returned",
         is_compliant |-> Len(issues) = 0,
         issues |-> issues,
         compliance_score |-> IF Len(issues) = 0 THEN 100
                              ELSE Max(0, 100 - Len(issues) * 20)]

\* _validate_trip_inputs without its implied-speed test (lines 592-598)
ValidateTripInputsNoSpeed(distance, driving_hours, cycle) ==
    IF distance <= 0 THEN "Invalid trip distance"
    ELSE IF driving_hours <= 0 THEN "Invalid driving hours"
    ELSE IF cycle < 0 \/ cycle > 70 * Hour THEN "Invalid cycle hours"
    ELSE ""

\* _validate_trip_inputs: the message of the ValueError raised, "" when none.
ValidateTripInputs(distance, driving_hours, cycle) ==
    IF distance <= 0 THEN "Invalid trip distance"
    ELSE IF driving_hours <= 0 THEN "Invalid driving hours"
    ELSE IF cycle < 0 \/ cycle > 70 * Hour THEN "Invalid cycle hours"
    ELSE IF distance < 20 * driving_hours \/ distance > 80 * driving_hours
    THEN "Unrealistic speed implied"
    ELSE ""

\* plan_trip_breaks
PlanTripBreaks(distance, driving_hours, cycle, duty_hours, driving_so_far, since_break) ==
    LET invalid == ValidateTripInputs(distance, driving_hours, cycle)
        mandatory_breaks == PlanMandatoryHosBreaks(driving_hours, cycle, duty_hours,
                                                   driving_so_far, since_break)
        fuel_stops == PlanFuelStops(distance, driving_hours)
        operational_stops == PlanOperationalStops
        all_breaks == mandatory_breaks \o fuel_stops \o operational_stops
        optimized_breaks == OptimizeBreakSchedule(all_breaks, driving_hours)
        timeline == CalculateTripTimeline(optimized_breaks, driving_hours)
        compliance == ValidateBreakPlanCompliance(optimized_breaks, driving_hours, cycle)
    IN  IF invalid # "" THEN Raised("RestBreakPlanningError", invalid)
        ELSE IF timeline.status = "raised"
        THEN Raised("RestBreakPlanningError", timeline.message)
        ELSE [status |-> "returned",
              total_breaks |-> Len(optimized_breaks),
              mandatory_breaks_count |-> Len(mandatory_breaks),
              fuel_stops_count |-> Len(fuel_stops),
              operational_stops_count |-> Len(operational_stops),
              breaks |-> optimized_breaks,
              trip_timeline |-> timeline,
              compliance |-> compliance,
              total_trip_time_hours |-> timeline.total_time_hours,
              total_driving_time_hours |-> driving_hours,
              total_break_time_hours |-> timeline.total_break_time_hours]

(***************************************************************************)
(* HOSStatus, the persisted status of a trip's driver.  violation_reason   *)
(* is kept as the list of reasons that "; ".join makes one string of.      *)
(***************************************************************************)
\* no HOSStatus row
NoHosStatus == [status |-> "none"]

\* A HOSStatus row as created for the usage values, its other fields at their
\* defaults.
HOSStatus(cycle, duty, driving, since_break) ==
    [status |-> "created",
     current_cycle_hours |-> cycle,
     available_cycle_hours |-> 70 * Hour,
     current_duty_period_hours |-> duty,
     available_duty_period_hours |-> 14 * Hour,
     current_driving_hours |-> driving,
     available_driving_hours |-> 11 * Hour,
     hours_since_last_break |-> since_break,
     needs_30_minute_break |-> FALSE,
     can_drive |-> TRUE,
     violation_reason |-> <<>>,
     next_required_rest_hours |-> 10 * Hour]

\* HOSStatus.calculate_available_hours: the row as saved
HosStatusCalculateAvailableHours(row) ==
    LET available_cycle_hours == Max(0, 70 * Hour - row.current_cycle_hours)
        available_duty_period_hours == Max(0, 14 * Hour - row.current_duty_period_hours)
        available_driving_hours == Max(0, 11 * Hour - row.current_driving_hours)
        needs_break == row.hours_since_last_break >= 8 * Hour
        violation_reasons ==
            (IF available_cycle_hours <= 0 THEN <<"70-hour/8-day limit reached">> ELSE <<>>)
            \o (IF available_duty_period_hours <= 0
                THEN <<"14-hour duty period limit reached">> ELSE <<>>)
            \o (IF available_driving_hours <= 0
                THEN <<"11-hour driving limit reached">> ELSE <<>>)
            \o (IF needs_break
                THEN <<"30-minute break required after 8 hours driving">> ELSE <<>>)
        can_drive == violation_reasons = <<>>
    IN  [row EXCEPT
            !.status = "saved",
            !.available_cycle_hours = available_cycle_hours,
            !.available_duty_period_hours = available_duty_period_hours,
            !.available_driving_hours = available_driving_hours,
            !.needs_30_minute_break = needs_break,
            !.can_drive = can_drive,
            !.violation_reason = violation_reasons,
            !.next_required_rest_hours =
                IF ~can_drive
                THEN (IF needs_break THEN HalfHour ELSE 10 * Hour)
                ELSE @]

\* HOSStatus.get_maximum_continuous_driving_hours
GetMaximumContinuousDrivingHours(row) ==
    Max(0, Min(Min(row.available_cycle_hours, row.available_duty_period_hours),
               Min(row.available_driving_hours,
                   IF ~row.needs_30_minute_break
                   THEN 8 * Hour - row.hours_since_last_break ELSE 0)))

(***************************************************************************)
(* ComplianceValidatorService                                              *)
(***************************************************************************)

\* _validate_trip_start_eligibility blocking the cycle only above its limit
ValidateTripStartEligibilityOverLimit(cycle, duty, driving, since_break) ==
    LET issues ==
            (IF cycle > MAX_CYCLE_HOURS
             THEN <<[type |-> "cycle_limit_reached",
                     description |-> "70-hour/8-day cycle limit reached",
                     required_action |-> "34-hour restart required"]>>
             ELSE <<>>)
            \o (IF duty >= MAX_DUTY_PERIOD_HOURS
                THEN <<[type |-> "duty_period_limit_reached",
                        description |-> "14-hour duty period limit reached",
                        required_action |-> "10 hours off duty required"]>>
                ELSE <<>>)
            \o (IF driving >= MAX_DRIVING_HOURS
                THEN <<[type |-> "driving_limit_reached",
                        description |-> "11-hour driving limit reached",
                        required_action |-> "10 hours off duty required"]>>
                ELSE <<>>)
            \o (IF since_break >= BREAK_REQUIRED_AFTER_HOURS
                THEN <<[type |-> "break_required",
                        description |-> "30-minute break required after 8 hours driving",
                        required_action |-> "30-minute break required"]>>
                ELSE <<>>)
    IN  [eligible |-> Len(issues) = 0, issues |-> issues]

\* _validate_trip_start_eligibility
ValidateTripStartEligibility(cycle, duty, driving, since_break) ==
    LET issues ==
            (IF cycle >= MAX_CYCLE_HOURS
             THEN <<[type |-> "cycle_limit_reached",
                     description |-> "70-hour/8-day cycle limit reached",
                     required_action |-> "34-hour restart required"]>>
             ELSE <<>>)
            \o (IF duty >= MAX_DUTY_PERIOD_HOURS
                THEN <<[type |-> "duty_period_limit_reached",
                        description |-> "14-hour duty period limit reached",
                        required_action |-> "10 hours off duty required"]>>
                ELSE <<>>)
            \o (IF driving >= MAX_DRIVING_HOURS
                THEN <<[type |-> "driving_limit_reached",
                        description |-> "11-hour driving limit reached",
                        required_action |-> "10 hours off duty required"]>>
                ELSE <<>>)
            \o (IF since_break >= BREAK_REQUIRED_AFTER_HOURS
                THEN <<[type |-> "break_required",
                        description |-> "30-minute break required after 8 hours driving",
                        required_action |-> "30-minute break required"]>>
                ELSE <<>>)
    IN  [eligible |-> Len(issues) = 0, issues |-> issues]

\* _validate_overall_compliance
ValidateOverallCompliance(hos_impact, break_plan) ==
    LET issues ==
            (IF hos_impact.exceeds_cycle_limit
             THEN <<[type |-> "exceeds_cycle_limit",
                     issue_type |-> "exceeds_cycle_limit"]>>
             ELSE <<>>)
            \o (IF ~break_plan.compliance.is_compliant
                THEN [k \in 1..Len(break_plan.compliance.issues) |->
                         [type |-> "break_plan_issue",
                          issue_type |-> break_plan.compliance.issues[k].type]]
                ELSE <<>>)
        warnings ==
            IF break_plan.total_trip_time_hours > 24 * Hour
            THEN <<[type |-> "long_trip_duration"]>>
            ELSE <<>>
    IN  [is_compliant |-> Len(issues) = 0,
         issues |-> issues,
         warnings |-> warnings,
         total_issues |-> Len(issues),
         total_warnings |-> Len(warnings)]

\* _calculate_overall_compliance_score
CalculateOverallComplianceScore(can_start, overall_compliance, break_compliance) ==
    LET score == 100
                 - (IF can_start THEN 0 ELSE 30)
                 - (IF overall_compliance.is_compliant THEN 0
                    ELSE overall_compliance.total_issues * 15)
                 - overall_compliance.total_warnings * 5
                 - ((100 - break_compliance.compliance_score) * 2) \div 10
    IN  Max(0, Min(100, score))

\* validate_trip_compliance
ValidateTripCompliance(distance, driving_hours, cycle, duty, driving, since_break) ==
    LET start == ValidateTripStartEligibility(cycle, duty, driving, since_break)
        can_start == start.eligible
        hos_impact == CalculateCycleHoursForTrip(driving_hours, cycle)
        break_plan == PlanTripBreaks(distance, driving_hours, cycle, duty, driving,
                                     since_break)
        overall_compliance == ValidateOverallCompliance(hos_impact, break_plan)
    IN  IF break_plan.status = "raised"
        THEN Raised("ComplianceValidationError", break_plan.message)
        ELSE [status |-> "returned",
              is_compliant |-> can_start /\ overall_compliance.is_compliant,
              compliance_score |->
                  CalculateOverallComplianceScore(can_start, overall_compliance,
                                                  break_plan.compliance),
              can_start_trip |-> can_start,
              start_eligibility |-> [eligible |-> can_start, issues |-> start.issues],
              hos_impact |-> hos_impact,
              break_plan |-> break_plan,
              overall_compliance |-> overall_compliance]

\* validate_driver_eligibility.  required_driving_hours of None or 0 skips the
\* check of the required driving; required_rest None is NotCalled.
ValidateDriverEligibility(cycle, duty, driving, since_break, required_driving_hours) ==
    LET availability == CalculateAvailableHours(cycle, duty, driving, since_break)
        current_compliance == ValidateHosCompliance(cycle, duty, driving, since_break)
    IN  IF availability.status = "raised"
        THEN Raised("ComplianceValidationError", availability.message)
        ELSE LET max_continuous == availability.max_continuous_driving_hours
                 insufficient == /\ required_driving_hours # 0
                                 /\ required_driving_hours > max_continuous
             IN  [status |-> "returned",
                  is_eligible |-> availability.can_drive /\ ~insufficient,
                  can_drive_now |-> availability.can_drive,
                  can_complete_required_driving |-> ~insufficient,
                  violation_reason |-> availability.violation_reason,
                  available_hours |-> availability.available_hours,
                  current_compliance |-> current_compliance,
                  required_driving_issues |->
                      IF insufficient
                      THEN <<[issue |-> "insufficient_available_hours",
                              required_hours |-> required_driving_hours,
                              available_hours |-> max_continuous]>>
                      ELSE <<>>,
                  required_rest |->
                      IF ~availability.can_drive
                      THEN CalculateRequiredRest(cycle, duty, driving,
                               since_break >= BREAK_REQUIRED_AFTER_HOURS)
                      ELSE NotCalled,
                  max_continuous_driving_hours |-> max_continuous]

(***************************************************************************)
(* DailyLogGeneratorService.  Times are minutes since day 0, 00:00; a date *)
(* is a day number; miles are ticks.  An activity keeps type, start_time,  *)
(* duration_minutes, description and miles_driven (location is free text   *)
(* that no decision reads).                                                *)
(***************************************************************************)
Mile == Hour
MinutesPerDay == 24 * 60
DateOf(t) == t \div MinutesPerDay

Activity(type, start_time, duration_minutes, description, miles_driven) ==
    [type |-> type, start_time |-> start_time, duration_minutes |-> duration_minutes,
     description |-> description, miles_driven |-> miles_driven]

ActivityEnd(a) == a.start_time + a.duration_minutes

\* The waypoint loop of _calculate_trip_timeline (lines 103-129):
\* [activities, current_time] after the waypoints from index k on.
RECURSIVE WaypointActivities(_, _, _, _)
WaypointActivities(wps, k, activities, current_time) ==
    IF k > Len(wps) THEN [activities |-> activities, current_time |-> current_time]
    ELSE LET wp == wps[k]
             driving_minutes == wp.estimated_time_from_previous_minutes
             with_driving ==
                 IF driving_minutes > 0
                 THEN Append(activities,
                             Activity("driving", current_time, driving_minutes,
                                      "Driving to waypoint",
                                      wp.distance_from_previous_miles))
                 ELSE activities
             after_driving == IF driving_minutes > 0
                              THEN current_time + driving_minutes ELSE current_time
             stop_minutes == wp.estimated_stop_duration_minutes
             stop_type == IF wp.waypoint_type \in {"pickup", "delivery"}
                          THEN "on_duty_not_driving" ELSE "off_duty"
             with_stop ==
                 IF stop_minutes > 0
                 THEN Append(with_driving,
                             Activity(stop_type, after_driving, stop_minutes,
                                      "Waypoint stop", 0))
                 ELSE with_driving
             after_stop == IF stop_minutes > 0
                           THEN after_driving + stop_minutes ELSE after_driving
         IN  WaypointActivities(wps, k + 1, with_stop, after_stop)

\* The direct-drive branch of _calculate_trip_timeline (lines 133-168).
DirectDriveActivities(driving_time_hours, distance, activities, current_time) ==
    IF driving_time_hours # 0
    THEN LET driving_minutes == (driving_time_hours * 60) \div Hour
             half == driving_minutes \div 2
             leg_miles == IF distance # 0 THEN distance \div 2 ELSE 100 * Mile
         IN  [activities |->
                  activities
                  \o <<Activity("driving", current_time, half,
                                "Driving to pickup location", leg_miles),
                       Activity("on_duty_not_driving", current_time + half, 60,
                                "Pickup and loading", 0),
                       Activity("driving", current_time + half + 60, half,
                                "Driving to delivery location", leg_miles)>>,
              current_time |-> current_time + half + 60 + half]
    ELSE [activities |-> activities, current_time |-> current_time]

\* activities[k+1:] with every start_time moved 30 minutes later, in place
\* (lines 223-224).
ShiftAfter(activities, k) ==
    [n \in 1..Len(activities) |->
        IF n > k
        THEN [activities[n] EXCEPT !.start_time = activities[n].start_time + 30]
        ELSE activities[n]]

\* The for loop of _insert_required_rest_breaks from index k on.  The list it
\* iterates is the caller's list, whose later elements it moves while iterating.
RECURSIVE InsertBreaksFrom(_, _, _, _)
InsertBreaksFrom(activities, k, updated_activities, continuous_driving_minutes) ==
    IF k > Len(activities)
    THEN [updated_activities |-> updated_activities, activities |-> activities]
    ELSE LET activity == activities[k]
         IN  IF activity.type = "driving"
             THEN LET continuous == continuous_driving_minutes
                                    + activity.duration_minutes
                  IN  IF continuous >= 480
                      THEN InsertBreaksFrom(
                               ShiftAfter(activities, k), k + 1,
                               updated_activities
                               \o <<activity,
                                    Activity("off_duty", ActivityEnd(activity), 30,
                                             "30-minute rest break (HOS compliance)", 0)>>,
                               0)
                      ELSE InsertBreaksFrom(activities, k + 1,
                                            Append(updated_activities, activity),
                                            continuous)
             ELSE InsertBreaksFrom(activities, k + 1,
                                   Append(updated_activities, activity),
                                   IF activity.duration_minutes >= 30 THEN 0
                                   ELSE continuous_driving_minutes)

\* _insert_required_rest_breaks
InsertRequiredRestBreaks(activities) ==
    InsertBreaksFrom(activities, 1, <<>>, 0)

\* _calculate_trip_timeline of the generator.  trip_end_time is the running
\* clock as it stood before the rest breaks were inserted (line 186).
LogCalculateTripTimeline(start_time, trip_route, driving_time_hours, distance) ==
    LET preparation == <<Activity("on_duty_not_driving", start_time, 60,
                                  "Trip preparation and pre-trip inspection", 0)>>
        travelled ==
            IF trip_route.present
            THEN WaypointActivities(trip_route.waypoints, 1, preparation, start_time + 60)
            ELSE DirectDriveActivities(driving_time_hours, distance, preparation,
                                       start_time + 60)
        with_delivery ==
            Append(travelled.activities,
                   Activity("on_duty_not_driving", travelled.current_time, 60,
                            "Delivery and unloading", 0))
        current_time == travelled.current_time + 60
    IN  [status |-> "returned",
         trip_start_time |-> start_time,
         trip_end_time |-> current_time,
         activities |-> InsertRequiredRestBreaks(with_delivery).updated_activities]

\* _determine_daily_log_dates
DetermineDailyLogDates(tl) ==
    LET start_date == DateOf(tl.trip_start_time)
        end_date == DateOf(tl.trip_end_time)
    IN  [n \in 1..(end_date - start_date + 1) |-> start_date + n - 1]

\* sorted(activities, key=start_time): stable, ascending
RECURSIVE InsertActivity(_, _)
InsertActivity(sorted, a) ==
    IF sorted = <<>> THEN <<a>>
    ELSE IF sorted[Len(sorted)].start_time <= a.start_time
    THEN Append(sorted, a)
    ELSE Append(InsertActivity(SubSeq(sorted, 1, Len(sorted) - 1), a),
                sorted[Len(sorted)])

RECURSIVE SortActivities(_)
SortActivities(activities) ==
    IF activities = <<>> THEN <<>>
    ELSE InsertActivity(SortActivities(SubSeq(activities, 1, Len(activities) - 1)),
                        activities[Len(activities)])

OffDuty(start_time, duration_minutes) ==
    Activity("off_duty", start_time, duration_minutes, "Off duty", 0)

\* The loop of _fill_daily_log_gaps over the sorted activities (lines 377-394).
RECURSIVE FillBetween(_, _)
FillBetween(sorted_activities, i) ==
    IF i > Len(sorted_activities) THEN <<>>
    ELSE LET activity == sorted_activities[i]
             current_end == ActivityEnd(activity)
             gap == IF i < Len(sorted_activities)
                       /\ sorted_activities[i + 1].start_time > current_end
                    THEN <<OffDuty(current_end,
                                   sorted_activities[i + 1].start_time - current_end)>>
                    ELSE <<>>
         IN  <<activity>> \o gap \o FillBetween(sorted_activities, i + 1)

\* _fill_daily_log_gaps without its end-of-day fill (lines 396-408)
FillDailyLogGapsNoEndFill(activities, date_start, date_end) ==
    IF activities = <<>>
    THEN <<OffDuty(date_start, 1440)>>
    ELSE LET sorted_activities == SortActivities(activities)
         IN  (IF sorted_activities[1].start_time > date_start
              THEN <<OffDuty(date_start, sorted_activities[1].start_time - date_start)>>
              ELSE <<>>)
             \o FillBetween(sorted_activities, 1)

\* _fill_daily_log_gaps
FillDailyLogGaps(activities, date_start, date_end) ==
    IF activities = <<>>
    THEN <<OffDuty(date_start, 1440)>>
    ELSE LET sorted_activities == SortActivities(activities)
             last_end == ActivityEnd(sorted_activities[Len(sorted_activities)])
         IN  (IF sorted_activities[1].start_time > date_start
              THEN <<OffDuty(date_start, sorted_activities[1].start_time - date_start)>>
              ELSE <<>>)
             \o FillBetween(sorted_activities, 1)
             \o (IF last_end < date_end
                 THEN <<OffDuty(last_end, date_end - last_end)>>
                 ELSE <<>>)

\* The filter of _create_duty_status_records_for_date (lines 285-305): the
\* activities overlapping the date, clipped to it.
RECURSIVE ClipToDate(_, _, _)
ClipToDate(activities, date_start, date_end) ==
    IF activities = <<>> THEN <<>>
    ELSE LET activity == activities[1]
             activity_start == activity.start_time
             activity_end == ActivityEnd(activity)
             clipped_start == Max(activity_start, date_start)
             clipped_end == Min(activity_end, date_end)
             clipped_duration == clipped_end - clipped_start
         IN  (IF activity_start < date_end /\ activity_end > date_start
                 /\ clipped_duration > 0
              THEN <<Activity(activity.type, clipped_start, clipped_duration,
                              activity.description,
                              IF clipped_duration = activity.duration_minutes
                              THEN activity.miles_driven ELSE 0)>>
              ELSE <<>>)
             \o ClipToDate(Tail(activities), date_start, date_end)

RECURSIVE SumMiles(_)
SumMiles(records) ==
    IF records = <<>> THEN 0 ELSE records[1].miles_driven_this_period + SumMiles(Tail(records))

\* _create_duty_status_records_for_date: the DutyStatusRecord rows written
\* for the date (DutyStatusRecord.save recomputes duration_minutes from
\* start_time and end_time).
CreateDutyStatusRecordsForDate(log_date, tl) ==
    LET date_start == log_date * MinutesPerDay
        date_end == date_start + MinutesPerDay
        date_activities ==
            FillDailyLogGaps(ClipToDate(tl.activities, date_start, date_end),
                             date_start, date_end)
    IN  [n \in 1..Len(date_activities) |->
            [duty_status |-> date_activities[n].type,
             start_time |-> date_activities[n].start_time,
             end_time |-> ActivityEnd(date_activities[n]),
             duration_minutes |-> ActivityEnd(date_activities[n])
                                  - date_activities[n].start_time,
             remarks |-> date_activities[n].description,
             miles_driven_this_period |-> date_activities[n].miles_driven,
             sequence_order |-> n - 1]]

\* DailyLog._round_to_quarter_hour, on a total held in minutes: the number of
\* quarter hours nearest to it (no whole number of minutes is a tie).
RoundToQuarterHour(minutes) ==
    IF 2 * (minutes % 15) > 15 THEN minutes \div 15 + 1 ELSE minutes \div 15

RECURSIVE MinutesOfStatus(_, _)
MinutesOfStatus(records, duty_status) ==
    IF records = <<>> THEN 0
    ELSE (IF records[1].duty_status = duty_status THEN records[1].duration_minutes ELSE 0)
         + MinutesOfStatus(Tail(records), duty_status)

\* DailyLog.calculate_totals: the four totals, in quarter hours
CalculateTotals(records) ==
    [total_hours_off_duty |-> RoundToQuarterHour(MinutesOfStatus(records, "off_duty")),
     total_hours_sleeper_berth |->
         RoundToQuarterHour(MinutesOfStatus(records, "sleeper_berth")),
     total_hours_driving |-> RoundToQuarterHour(MinutesOfStatus(records, "driving")),
     total_hours_on_duty_not_driving |->
         RoundToQuarterHour(MinutesOfStatus(records, "on_duty_not_driving"))]

\* DailyLog.total_hours_sum, in quarter hours
TotalHoursSum(log) ==
    log.totals.total_hours_off_duty + log.totals.total_hours_sleeper_berth
    + log.totals.total_hours_driving + log.totals.total_hours_on_duty_not_driving

\* DailyLog.is_complete: abs(total_hours_sum - 24.0) < 0.1, compared in minutes
IsComplete(log) == Abs(15 * TotalHoursSum(log) - 24 * 60) < 6

\* DailyLog.validate_compliance: the types of the violations it lists
ValidateCompliance(log) ==
    (IF ~IsComplete(log) THEN <<"incomplete_log">> ELSE <<>>)
    \o (IF log.totals.total_hours_driving > 11 * 4
        THEN <<"driving_limit_exceeded">> ELSE <<>>)
    \o (IF log.totals.total_hours_off_duty + log.totals.total_hours_sleeper_berth < 10 * 4
        THEN <<"insufficient_rest">> ELSE <<>>)

\* _create_daily_log_for_date
CreateDailyLogForDate(log_date, tl) ==
    LET records == CreateDutyStatusRecordsForDate(log_date, tl)
    IN  [log_date |-> log_date,
         duty_status_records |-> records,
         total_miles_driving_today |-> SumMiles(records),
         totals |-> CalculateTotals(records)]

(***************************************************************************)
(* Bounds of the model and the inputs drawn within them                    *)
(***************************************************************************)
\* half-hour steps taken on either side of each limit of the calculator
Spread == 1
\* plan_30_minute_breaks: driving hours and hours since the last break, in
\* half-hour steps
MaxDrivingHalfHours == 41
MaxSinceBreakHalfHours == 18
\* plan_trip_breaks: trip driving hours, in two-hour steps
MaxTripSteps == 12
\* _validate_break_plan_compliance: breaks in the list, driving hours in
\* half-hour steps
MaxBreaks == 3
MaxCheckHalfHours == 50
\* generate_trip_daily_logs: waypoints on the route
MaxWaypoints == 3
\* _optimize_break_schedule: breaks in the list
MaxOptimizeBreaks == 4
\* readings of the clock after the first
MaxClock == 2

Around(x) == {x + k * HalfHour : k \in (0 - Spread)..Spread}

SeqsUpTo(S, n) == UNION {[1..m -> S] : m \in 0..n}

CalcIdle ==
    /\ available = NotCalled
    /\ hos_compliance = NotCalled
    /\ needs_30_minute_break = FALSE
    /\ required_rest = NotCalled
    /\ now = 0
    /\ previous_available = NotCalled
    /\ hos_status = NoHosStatus
P30Idle == p30 = [pc |-> "idle"]
\* plan_trip_breaks before its call: no list built, no outcome
PtbIdle ==
    [pc |-> "idle", built |-> {}, mandatory_breaks |-> <<>>, fuel_stops |-> <<>>,
     operational_stops |-> <<>>, optimized_breaks |-> <<>>, result |-> NotCalled]
PlannerIdle ==
    /\ trip_break_plan = NotCalled
    /\ breaks_arg = <<>>
    /\ plan_compliance = NotCalled
    /\ optimized = NotCalled
    /\ ptb = PtbIdle
    /\ trip_compliance = NotCalled
ValidatorIdle == start_eligibility = NotCalled /\ driver_eligibility = NotCalled
NoRoute == [present |-> FALSE]
LogIdle ==
    /\ trip_start_time = 0
    /\ route = NoRoute
    /\ trip_timeline = NotCalled
    /\ daily_log_dates = <<>>
    /\ daily_logs = <<>>
    /\ log_pc = "idle"

(***************************************************************************)
(* SpecCalc: HOSCalculatorService called on one driver status              *)
(***************************************************************************)
CalcCycleHours ==
    Around(0) \cup Around(65 * Hour) \cup Around(70 * Hour) \cup Around(100 * Hour)
CalcDutyHours == Around(0) \cup {10 * Hour} \cup Around(14 * Hour) \cup Around(24 * Hour)
CalcDrivingHours == Around(0) \cup {9 * Hour} \cup Around(11 * Hour)
CalcSinceBreakHours ==
    Around(0) \cup {3 * Hour} \cup Around(7 * Hour) \cup Around(8 * Hour) \cup Around(24 * Hour)

InitCalc ==
    /\ total_distance_miles = 0
    /\ estimated_driving_hours = 0
    /\ current_cycle_hours \in CalcCycleHours
    /\ current_duty_period_hours \in CalcDutyHours
    /\ current_driving_hours \in CalcDrivingHours
    /\ hours_since_last_break \in CalcSinceBreakHours
    /\ CalcIdle /\ P30Idle /\ ValidatorIdle /\ PlannerIdle /\ LogIdle

CallCalculateAvailableHours ==
    /\ available' = CalculateAvailableHoursAt(current_cycle_hours,
                        current_duty_period_hours, current_driving_hours,
                        hours_since_last_break, now)
    /\ previous_available' = available
    /\ UNCHANGED <<inputVars, validatorVars, hos_compliance,
                   needs_30_minute_break, required_rest, now, hos_status, p30,
                   plannerVars, logVars>>

CallValidateHosCompliance ==
    /\ hos_compliance' = ValidateHosCompliance(current_cycle_hours,
                             current_duty_period_hours, current_driving_hours,
                             hours_since_last_break)
    /\ UNCHANGED <<inputVars, validatorVars, available, needs_30_minute_break,
                   required_rest, now, previous_available, hos_status, p30,
                   plannerVars, logVars>>

NextCalc == CallCalculateAvailableHours \/ CallValidateHosCompliance

SpecCalc == InitCalc /\ [][NextCalc]_vars

(***************************************************************************)
(* SpecRecalc: calculate_available_hours called again and again on one     *)
(* driver status while the clock runs                                      *)
(***************************************************************************)
RecalcSinceBreakHours == {0, 3 * Hour, 8 * Hour, 24 * Hour + HalfHour}

InitRecalc ==
    /\ total_distance_miles = 0
    /\ estimated_driving_hours = 0
    /\ current_cycle_hours \in CalcCycleHours
    /\ current_duty_period_hours = 0
    /\ current_driving_hours = 0
    /\ hours_since_last_break \in RecalcSinceBreakHours
    /\ CalcIdle /\ P30Idle /\ ValidatorIdle /\ PlannerIdle /\ LogIdle

\* Time passes between two readings of timezone.now().
Tick ==
    /\ now < MaxClock
    /\ now' = now + 1
    /\ UNCHANGED <<inputVars, validatorVars, available, hos_compliance,
                   needs_30_minute_break, required_rest, previous_available,
                   hos_status, p30, plannerVars, logVars>>

NextRecalc == CallCalculateAvailableHours \/ Tick

SpecRecalc == InitRecalc /\ [][NextRecalc]_vars

(***************************************************************************)
(* SpecEligibility: the validator's start check and the calculator called  *)
(* on one driver status                                                    *)
(***************************************************************************)
CallValidateTripStartEligibility ==
    /\ start_eligibility' =
           [status |-> "returned",
            verdict |-> ValidateTripStartEligibility(current_cycle_hours,
                            current_duty_period_hours, current_driving_hours,
                            hours_since_last_break)]
    /\ UNCHANGED <<inputVars, calcVars, p30, plannerVars, driver_eligibility,
                   logVars>>

NextEligibility == CallCalculateAvailableHours \/ CallValidateTripStartEligibility

SpecEligibility == InitCalc /\ [][NextEligibility]_vars

(***************************************************************************)
(* SpecDriver: validate_driver_eligibility called on one driver status     *)
(***************************************************************************)
RequiredDrivingHours == {0, 8 * Hour}

CallValidateDriverEligibility ==
    /\ \E required_driving_hours \in RequiredDrivingHours :
           driver_eligibility' =
               ValidateDriverEligibility(current_cycle_hours,
                   current_duty_period_hours, current_driving_hours,
                   hours_since_last_break, required_driving_hours)
    /\ UNCHANGED <<inputVars, calcVars, p30, plannerVars, start_eligibility,
                   logVars>>

NextDriver == CallValidateDriverEligibility

SpecDriver == InitCalc /\ [][NextDriver]_vars

(***************************************************************************)
(* SpecStatus: the HOSStatus row and the calculator on the same usage      *)
(* values, drawn from the ranges of the row's fields                       *)
(***************************************************************************)
StatusCycleHours == {0, 70 * Hour - HalfHour, 70 * Hour}
StatusDutyHours == {0, 14 * Hour - HalfHour, 14 * Hour}
StatusDrivingHours == {0, 11 * Hour - HalfHour, 11 * Hour}
StatusSinceBreakHours == {0, 8 * Hour - HalfHour, 8 * Hour, 8 * Hour + HalfHour}

InitStatus ==
    /\ total_distance_miles = 0
    /\ estimated_driving_hours = 0
    /\ current_cycle_hours \in StatusCycleHours
    /\ current_duty_period_hours \in StatusDutyHours
    /\ current_driving_hours \in StatusDrivingHours
    /\ hours_since_last_break \in StatusSinceBreakHours
    /\ available = NotCalled
    /\ hos_compliance = NotCalled
    /\ needs_30_minute_break = FALSE
    /\ required_rest = NotCalled
    /\ now = 0
    /\ previous_available = NotCalled
    /\ hos_status = HOSStatus(current_cycle_hours, current_duty_period_hours,
                              current_driving_hours, hours_since_last_break)
    /\ P30Idle /\ ValidatorIdle /\ PlannerIdle /\ LogIdle

\* hos_status.calculate_available_hours()
SaveCalculateAvailableHours ==
    /\ hos_status.status # "none"
    /\ hos_status' = HosStatusCalculateAvailableHours(hos_status)
    /\ UNCHANGED <<inputVars, validatorVars, available, hos_compliance,
                   needs_30_minute_break, required_rest, now, previous_available,
                   p30, plannerVars, logVars>>

NextStatus == SaveCalculateAvailableHours \/ CallCalculateAvailableHours

SpecStatus == InitStatus /\ [][NextStatus]_vars

(***************************************************************************)
(* SpecRest: calculate_required_rest called on one driver status           *)
(***************************************************************************)
RestCycleHours == Around(0) \cup Around(60 * Hour) \cup Around(70 * Hour)
RestDutyHours == Around(0) \cup Around(14 * Hour)
RestDrivingHours == Around(0) \cup Around(11 * Hour)

InitRest ==
    /\ total_distance_miles = 0
    /\ estimated_driving_hours = 0
    /\ current_cycle_hours \in RestCycleHours
    /\ current_duty_period_hours \in RestDutyHours
    /\ current_driving_hours \in RestDrivingHours
    /\ hours_since_last_break = 0
    /\ available = NotCalled
    /\ hos_compliance = NotCalled
    /\ needs_30_minute_break \in BOOLEAN
    /\ required_rest = NotCalled
    /\ now = 0
    /\ previous_available = NotCalled
    /\ hos_status = NoHosStatus
    /\ P30Idle /\ ValidatorIdle /\ PlannerIdle /\ LogIdle

CallCalculateRequiredRest ==
    /\ required_rest' = CalculateRequiredRest(current_cycle_hours,
                            current_duty_period_hours, current_driving_hours,
                            needs_30_minute_break)
    /\ UNCHANGED <<inputVars, validatorVars, available, hos_compliance,
                   needs_30_minute_break, now, previous_available, hos_status,
                   p30, plannerVars, logVars>>

NextRest == CallCalculateRequiredRest

SpecRest == InitRest /\ [][NextRest]_vars

(***************************************************************************)
(* Spec30: plan_30_minute_breaks, one pass of its while loop per step      *)
(***************************************************************************)
P30DrivingHours ==
    {k * HalfHour : k \in 0..MaxDrivingHalfHours} \cup {8 * Hour + 11}
P30SinceBreakHours == {k * HalfHour : k \in 0..MaxSinceBreakHalfHours}

Init30 ==
    /\ total_distance_miles = 0
    /\ estimated_driving_hours \in P30DrivingHours
    /\ current_cycle_hours = 0
    /\ current_duty_period_hours = 0
    /\ current_driving_hours = 0
    /\ hours_since_last_break \in P30SinceBreakHours
    /\ CalcIdle /\ P30Idle /\ ValidatorIdle /\ PlannerIdle /\ LogIdle

Frame(pc, iterations, locals) ==
    [pc |-> pc,
     iterations |-> iterations,
     breaks |-> locals.breaks,
     remaining_hours |-> locals.remaining_hours,
     current_driving_hours |-> locals.current_driving_hours,
     driving_hours_completed |-> locals.driving_hours_completed]

P30Call ==
    /\ p30.pc = "idle"
    /\ p30' = Frame("loop", 0, ThirtyMinuteLocals(estimated_driving_hours,
                                                  hours_since_last_break))
    /\ UNCHANGED <<inputVars, validatorVars, calcVars, plannerVars, logVars>>

P30Iterate ==
    /\ p30.pc = "loop"
    /\ p30.remaining_hours > 0
    /\ p30' = Frame("loop", p30.iterations + 1, ThirtyMinuteLoopBody(p30))
    /\ UNCHANGED <<inputVars, validatorVars, calcVars, plannerVars, logVars>>

P30Return ==
    /\ p30.pc = "loop"
    /\ ~(p30.remaining_hours > 0)
    /\ p30' = [p30 EXCEPT !.pc = "returned"]
    /\ UNCHANGED <<inputVars, validatorVars, calcVars, plannerVars, logVars>>

Next30 == P30Call \/ P30Iterate \/ P30Return

Spec30 == Init30 /\ [][Next30]_vars

\* The call runs to completion once made: nothing suspends the loop.
FairSpec30 == Spec30 /\ WF_vars(Next30)

(***************************************************************************)
(* SpecPlanner: plan_trip_breaks and validate_trip_compliance called on    *)
(* one trip and driver status                                              *)
(***************************************************************************)
TripDrivingHours == {k * 2 * Hour : k \in 0..MaxTripSteps}
\* distances at 10, 55 and 90 mph for the driving hours, none, and 1200 miles
TripDistances(driving_hours) ==
    {0, 10 * driving_hours, 55 * driving_hours, 90 * driving_hours, 1200 * Mile}
TripCycleHours == {0 - Hour, 0, 50 * Hour, 60 * Hour, 70 * Hour, 71 * Hour}
TripDutyHours == {0, 10 * Hour, 14 * Hour}
TripDrivingSoFar == {0, 9 * Hour, 11 * Hour}
TripSinceBreakHours == {0, 3 * Hour, 8 * Hour}

InitPlanner ==
    /\ estimated_driving_hours \in TripDrivingHours
    /\ total_distance_miles \in TripDistances(estimated_driving_hours)
    /\ current_cycle_hours \in TripCycleHours
    /\ current_duty_period_hours \in TripDutyHours
    /\ current_driving_hours \in TripDrivingSoFar
    /\ hours_since_last_break \in TripSinceBreakHours
    /\ CalcIdle /\ P30Idle /\ ValidatorIdle /\ PlannerIdle /\ LogIdle

CallPlanTripBreaks ==
    /\ trip_break_plan' = PlanTripBreaks(total_distance_miles, estimated_driving_hours,
                              current_cycle_hours, current_duty_period_hours,
                              current_driving_hours, hours_since_last_break)
    /\ UNCHANGED <<inputVars, validatorVars, calcVars, p30, breaks_arg,
                   plan_compliance, optimized, ptb, trip_compliance, logVars>>

CallValidateTripCompliance ==
    /\ trip_compliance' = ValidateTripCompliance(total_distance_miles,
                              estimated_driving_hours, current_cycle_hours,
                              current_duty_period_hours, current_driving_hours,
                              hours_since_last_break)
    /\ UNCHANGED <<inputVars, validatorVars, calcVars, p30, trip_break_plan,
                   breaks_arg, optimized, plan_compliance, ptb, logVars>>

NextPlanner == CallPlanTripBreaks \/ CallValidateTripCompliance

SpecPlanner == InitPlanner /\ [][NextPlanner]_vars

(***************************************************************************)
(* SpecPlanSteps: plan_trip_breaks on one trip, one call of its body per   *)
(* step                                                                    *)
(***************************************************************************)
PtbValidateTripInputs ==
    /\ ptb.pc = "idle"
    /\ LET invalid == ValidateTripInputs(total_distance_miles, estimated_driving_hours,
                                         current_cycle_hours)
       IN  ptb' = IF invalid # ""
                  THEN [ptb EXCEPT !.pc = "raised",
                                   !.result = Raised("RestBreakPlanningError", invalid)]
                  ELSE [ptb EXCEPT !.pc = "plan_mandatory"]
    /\ UNCHANGED <<inputVars, validatorVars, calcVars, p30, trip_break_plan,
                   breaks_arg, optimized, plan_compliance, trip_compliance,
                   logVars>>

PtbPlanMandatoryHosBreaks ==
    /\ ptb.pc = "plan_mandatory"
    /\ ptb' = [ptb EXCEPT !.pc = "plan_fuel",
                          !.built = @ \cup {"mandatory_breaks"},
                          !.mandatory_breaks =
                              PlanMandatoryHosBreaks(estimated_driving_hours,
                                  current_cycle_hours, current_duty_period_hours,
                                  current_driving_hours, hours_since_last_break)]
    /\ UNCHANGED <<inputVars, validatorVars, calcVars, p30, trip_break_plan,
                   breaks_arg, optimized, plan_compliance, trip_compliance,
                   logVars>>

PtbPlanFuelStops ==
    /\ ptb.pc = "plan_fuel"
    /\ ptb' = [ptb EXCEPT !.pc = "plan_operational",
                          !.built = @ \cup {"fuel_stops"},
                          !.fuel_stops = PlanFuelStops(total_distance_miles,
                                                       estimated_driving_hours)]
    /\ UNCHANGED <<inputVars, validatorVars, calcVars, p30, trip_break_plan,
                   breaks_arg, optimized, plan_compliance, trip_compliance,
                   logVars>>

PtbPlanOperationalStops ==
    /\ ptb.pc = "plan_operational"
    /\ ptb' = [ptb EXCEPT !.pc = "optimize",
                          !.built = @ \cup {"operational_stops"},
                          !.operational_stops = PlanOperationalStops]
    /\ UNCHANGED <<inputVars, validatorVars, calcVars, p30, trip_break_plan,
                   breaks_arg, optimized, plan_compliance, trip_compliance,
                   logVars>>

PtbOptimizeBreakSchedule ==
    /\ ptb.pc = "optimize"
    /\ ptb' = [ptb EXCEPT !.pc = "finish",
                          !.built = @ \cup {"optimized_breaks"},
                          !.optimized_breaks =
                              OptimizeBreakSchedule(
                                  ptb.mandatory_breaks \o ptb.fuel_stops
                                  \o ptb.operational_stops,
                                  estimated_driving_hours)]
    /\ UNCHANGED <<inputVars, validatorVars, calcVars, p30, trip_break_plan,
                   breaks_arg, optimized, plan_compliance, trip_compliance,
                   logVars>>

\* The timeline, the compliance sub-check and the result (lines 100-125), or
\* the except clause when the timeline raises.
PtbFinish ==
    /\ ptb.pc = "finish"
    /\ LET result == PlanTripBreaks(total_distance_miles, estimated_driving_hours,
                         current_cycle_hours, current_duty_period_hours,
                         current_driving_hours, hours_since_last_break)
       IN  ptb' = [ptb EXCEPT !.pc = result.status, !.result = result]
    /\ UNCHANGED <<inputVars, validatorVars, calcVars, p30, trip_break_plan,
                   breaks_arg, optimized, plan_compliance, trip_compliance,
                   logVars>>

NextPlanSteps ==
    \/ PtbValidateTripInputs
    \/ PtbPlanMandatoryHosBreaks
    \/ PtbPlanFuelStops
    \/ PtbPlanOperationalStops
    \/ PtbOptimizeBreakSchedule
    \/ PtbFinish

SpecPlanSteps == InitPlanner /\ [][NextPlanSteps]_vars

(***************************************************************************)
(* SpecBreakCheck: _validate_break_plan_compliance called on a break list  *)
(***************************************************************************)
\* one break of each type the planner builds
BreakKinds ==
    {ThirtyMinuteBreak(8 * Hour),
     TenHourBreak(11 * Hour, "10 consecutive hours off duty to reset daily limits"),
     RestartBreak,
     FuelStop(1),
     PlanOperationalStops[1],
     CombineBreaks(ThirtyMinuteBreak(18 * Hour), FuelStop(1))}
CheckDrivingHours == {k * HalfHour : k \in 0..MaxCheckHalfHours}

InitBreakCheck ==
    /\ total_distance_miles = 0
    /\ estimated_driving_hours \in CheckDrivingHours
    /\ current_cycle_hours = 0
    /\ current_duty_period_hours = 0
    /\ current_driving_hours = 0
    /\ hours_since_last_break = 0
    /\ CalcIdle /\ P30Idle /\ ValidatorIdle /\ LogIdle
    /\ trip_break_plan = NotCalled
    /\ breaks_arg \in SeqsUpTo(BreakKinds, MaxBreaks)
    /\ plan_compliance = NotCalled
    /\ optimized = NotCalled
    /\ ptb = PtbIdle
    /\ trip_compliance = NotCalled

CallValidateBreakPlanCompliance ==
    /\ plan_compliance' = ValidateBreakPlanCompliance(breaks_arg,
                              estimated_driving_hours, current_cycle_hours)
    /\ UNCHANGED <<inputVars, validatorVars, calcVars, p30, trip_break_plan,
                   breaks_arg, optimized, ptb, trip_compliance, logVars>>

NextBreakCheck == CallValidateBreakPlanCompliance

SpecBreakCheck == InitBreakCheck /\ [][NextBreakCheck]_vars

(***************************************************************************)
(* SpecOptimize: _optimize_break_schedule called on a break list           *)
(***************************************************************************)
\* Breaks as the planner builds them, before any merge: 30-minute breaks at 8,
\* 18 and 18.5 hours and exactly, and just more than, half an hour before the
\* first fuel stop; the first fuel stop (1000 / 55 hours); a 10-hour rest at 18
\* hours; the restart and the pickup stop at hour 0.
OptimizeBreakKinds ==
    {ThirtyMinuteBreak(8 * Hour),
     ThirtyMinuteBreak(18 * Hour),
     ThirtyMinuteBreak(18 * Hour + HalfHour),
     ThirtyMinuteBreak((1000 * Hour) \div 55 - HalfHour),
     ThirtyMinuteBreak((1000 * Hour) \div 55 - HalfHour - 11),
     FuelStop(1),
     TenHourBreak(18 * Hour, "10 consecutive hours off duty to reset daily limits"),
     RestartBreak,
     PlanOperationalStops[1]}

InitOptimize ==
    /\ total_distance_miles = 0
    /\ estimated_driving_hours = 0
    /\ current_cycle_hours = 0
    /\ current_duty_period_hours = 0
    /\ current_driving_hours = 0
    /\ hours_since_last_break = 0
    /\ CalcIdle /\ P30Idle /\ ValidatorIdle /\ LogIdle
    /\ trip_break_plan = NotCalled
    /\ breaks_arg \in SeqsUpTo(OptimizeBreakKinds, MaxOptimizeBreaks)
    /\ plan_compliance = NotCalled
    /\ optimized = NotCalled
    /\ ptb = PtbIdle
    /\ trip_compliance = NotCalled

\* The call sorts the caller's list in place and returns the optimized list.
CallOptimizeBreakSchedule ==
    /\ optimized' = [status |-> "returned",
                     breaks |-> OptimizeBreakSchedule(breaks_arg,
                                                      estimated_driving_hours)]
    /\ breaks_arg' = SortBreaks(breaks_arg)
    /\ UNCHANGED <<inputVars, validatorVars, calcVars, p30, trip_break_plan,
                   plan_compliance, ptb, trip_compliance, logVars>>

NextOptimize == CallOptimizeBreakSchedule

SpecOptimize == InitOptimize /\ [][NextOptimize]_vars

(***************************************************************************)
(* SpecLogs: generate_trip_daily_logs called on one trip, one call of its  *)
(* body per step and one pass of its for loop per date                     *)
(***************************************************************************)
LogStartTimes == {4 * 60 + 45, 13 * 60 + 45, 22 * 60}

Waypoint(waypoint_type, time_from_previous, stop_duration, distance_from_previous) ==
    [waypoint_type |-> waypoint_type,
     estimated_time_from_previous_minutes |-> time_from_previous,
     estimated_stop_duration_minutes |-> stop_duration,
     distance_from_previous_miles |-> distance_from_previous]

WaypointKinds ==
    {Waypoint("pickup", 180, 60, 165 * Mile),
     Waypoint("pickup", 125, 65, 110 * Mile),
     Waypoint("dropoff", 480, 30, 440 * Mile),
     Waypoint("route_point", 480, 0, 440 * Mile),
     Waypoint("fuel_stop", 479, 15, 400 * Mile),
     Waypoint("rest_stop", 0, 600, 0)}

LogRoutes ==
    {NoRoute}
    \cup {[present |-> TRUE, waypoints |-> w] : w \in SeqsUpTo(WaypointKinds, MaxWaypoints)}

LogDrivingHours == {0, 4 * Hour, 8 * Hour, 11 * Hour, 16 * Hour, 20 * Hour}

InitLogs ==
    /\ trip_start_time \in LogStartTimes
    /\ route \in LogRoutes
    /\ estimated_driving_hours \in (IF route.present THEN {0} ELSE LogDrivingHours)
    /\ total_distance_miles \in {0, 55 * estimated_driving_hours}
    /\ current_cycle_hours = 0
    /\ current_duty_period_hours = 0
    /\ current_driving_hours = 0
    /\ hours_since_last_break = 0
    /\ CalcIdle /\ P30Idle /\ ValidatorIdle /\ PlannerIdle
    /\ trip_timeline = NotCalled
    /\ daily_log_dates = <<>>
    /\ daily_logs = <<>>
    /\ log_pc = "idle"

GenCalculateTripTimeline ==
    /\ log_pc = "idle"
    /\ trip_timeline' = LogCalculateTripTimeline(trip_start_time, route,
                            estimated_driving_hours, total_distance_miles)
    /\ log_pc' = "timeline"
    /\ UNCHANGED <<inputVars, validatorVars, calcVars, p30, plannerVars,
                   trip_start_time, route, daily_log_dates, daily_logs>>

GenDetermineDailyLogDates ==
    /\ log_pc = "timeline"
    /\ daily_log_dates' = DetermineDailyLogDates(trip_timeline)
    /\ log_pc' = "dates"
    /\ UNCHANGED <<inputVars, validatorVars, calcVars, p30, plannerVars,
                   trip_start_time, route, trip_timeline, daily_logs>>

GenCreateDailyLogForDate ==
    /\ log_pc = "dates"
    /\ Len(daily_logs) < Len(daily_log_dates)
    /\ daily_logs' = Append(daily_logs,
                            CreateDailyLogForDate(daily_log_dates[Len(daily_logs) + 1],
                                                  trip_timeline))
    /\ UNCHANGED <<inputVars, validatorVars, calcVars, p30, plannerVars,
                   trip_start_time, route, trip_timeline, daily_log_dates,
                   log_pc>>

GenReturn ==
    /\ log_pc = "dates"
    /\ Len(daily_logs) = Len(daily_log_dates)
    /\ log_pc' = "returned"
    /\ UNCHANGED <<inputVars, validatorVars, calcVars, p30, plannerVars,
                   trip_start_time, route, trip_timeline, daily_log_dates,
                   daily_logs>>

NextLogs ==
    \/ GenCalculateTripTimeline
    \/ GenDetermineDailyLogDates
    \/ GenCreateDailyLogForDate
    \/ GenReturn

SpecLogs == InitLogs /\ [][NextLogs]_vars

(***************************************************************************)
(* Claims about HOSCalculatorService (SpecCalc)                            *)
(***************************************************************************)

\* The first blocked limit in the order cycle, duty period, driving, break,
\* read off the four headroom values of a result.
FirstBlockedLimit(a) ==
    IF ~(a.cycle_hours > 0) THEN "70-hour/8-day limit reached"
    ELSE IF ~(a.duty_period_hours > 0) THEN "14-hour duty period limit reached"
    ELSE IF ~(a.driving_hours > 0) THEN "11-hour driving limit reached"
    ELSE "30-minute break required after 8 hours driving"

\* C2: for every accepted state, can_drive is true iff all four headroom values
\* are strictly positive; when it is true violation_reason is empty and
\* validate_hos_compliance lists no violation for the state; when it is false
\* violation_reason names the first blocked limit in the order cycle, duty
\* period, driving, break.
C2_CanDriveConsistency ==
    available.status = "returned" =>
        LET a == available.available_hours
            headroom == /\ a.cycle_hours > 0
                        /\ a.duty_period_hours > 0
                        /\ a.driving_hours > 0
                        /\ a.hours_until_break > 0
        IN  /\ available.can_drive <=> headroom
            /\ available.can_drive => available.violation_reason = ""
            /\ ~available.can_drive =>
                   available.violation_reason = FirstBlockedLimit(a)
            /\ (available.can_drive /\ hos_compliance.status = "returned") =>
                   /\ hos_compliance.violations = <<>>
                   /\ hos_compliance.is_compliant

\* C2 witness: duty-period and driving limits are both reached and the duty
\* period, first in the order, is the one reported; validate_hos_compliance
\* has judged the same state.
C2_Witness ==
    /\ available.status = "returned"
    /\ hos_compliance.status = "returned"
    /\ ~available.can_drive
    /\ available.available_hours.cycle_hours > 0
    /\ available.available_hours.duty_period_hours = 0
    /\ available.available_hours.driving_hours = 0
    /\ available.violation_reason = "14-hour duty period limit reached"

\* C10: calculate_available_hours raises, and returns no result, whenever an
\* input is negative, duty_period_hours > 24 or driving_hours > duty_period_hours.
C10_InvalidInputRaises ==
    (/\ available.status # "not_called"
     /\ \/ current_cycle_hours < 0
        \/ current_duty_period_hours < 0
        \/ current_driving_hours < 0
        \/ hours_since_last_break < 0
        \/ current_duty_period_hours > 24 * Hour
        \/ current_driving_hours > current_duty_period_hours)
    => /\ available.status = "raised"
       /\ available.error = "HOSCalculationError"
       /\ DOMAIN available = {"status", "error", "message"}

\* C10 witness: no input is negative, the duty period is within 24 hours, and
\* the call raised because driving hours exceed duty-period hours.
C10_Witness ==
    /\ available.status = "raised"
    /\ current_cycle_hours >= 0 /\ current_cycle_hours <= 100 * Hour
    /\ current_duty_period_hours >= 0 /\ current_duty_period_hours <= 24 * Hour
    /\ hours_since_last_break >= 0 /\ hours_since_last_break <= 24 * Hour
    /\ current_driving_hours > current_duty_period_hours

(***************************************************************************)
(* Claims about plan_30_minute_breaks (Spec30, FairSpec30)                 *)
(***************************************************************************)

\* C3: with hours_since_last_break = 0, plan_30_minute_breaks returns 0 breaks
\* for 0 driving hours, 1 for 8, 2 for 16 and 1 for 8.0001.
C3_BreakCounts ==
    (p30.pc = "returned" /\ hours_since_last_break = 0) =>
        /\ estimated_driving_hours = 0 => Len(p30.breaks) = 0
        /\ estimated_driving_hours = 8 * Hour => Len(p30.breaks) = 1
        /\ estimated_driving_hours = 16 * Hour => Len(p30.breaks) = 2
        /\ estimated_driving_hours = 8 * Hour + 11 => Len(p30.breaks) = 1

\* C4: every break of plan_30_minute_breaks lies at the driving-hour mark at
\* which driving since the last break, the initial hours_since_last_break
\* counted, reaches 8 hours (mark 0 when it had reached 8 before the trip);
\* consecutive breaks are exactly 8 driving hours apart; the mile mark is 55
\* times the hour mark; 20 driving hours from a fresh break give exactly two
\* breaks, at 8 and at 16 hours.
C4_BreakPlacement ==
    p30.pc # "idle" =>
        /\ \A k \in 1..Len(p30.breaks) :
              /\ p30.breaks[k].break_type = "30_minute"
              /\ p30.breaks[k].required_at_driving_hours
                     = Max(0, 8 * Hour - hours_since_last_break) + (k - 1) * 8 * Hour
              /\ p30.breaks[k].required_at_trip_miles
                     = 55 * p30.breaks[k].required_at_driving_hours
              /\ k > 1 => p30.breaks[k].required_at_driving_hours
                          - p30.breaks[k - 1].required_at_driving_hours = 8 * Hour
        /\ (/\ p30.pc = "returned"
            /\ estimated_driving_hours = 20 * Hour
            /\ hours_since_last_break = 0)
           => /\ Len(p30.breaks) = 2
              /\ p30.breaks[1].required_at_driving_hours = 8 * Hour
              /\ p30.breaks[2].required_at_driving_hours = 16 * Hour

\* C4 witness: the call for 20 driving hours from a fresh break has returned
\* its two breaks.
C4_Witness ==
    /\ p30.pc = "returned"
    /\ estimated_driving_hours = 20 * Hour
    /\ hours_since_last_break = 0
    /\ Len(p30.breaks) = 2

\* C5 as stated: plan_30_minute_breaks terminates and its while loop makes at
\* most driving_hours / 8 + 1 passes.
C5_TerminatesWithinClaimedBound ==
    /\ <>(p30.pc = "returned")
    /\ [](p30.pc # "idle" =>
             8 * Hour * p30.iterations <= estimated_driving_hours + 8 * Hour)

\* C5 amended: plan_30_minute_breaks terminates and its while loop makes at
\* most driving_hours / 8 + 2 passes, and at most driving_hours / 8 + 1 when
\* hours_since_last_break is 0.
C5_TerminatesWithinBound ==
    /\ <>(p30.pc = "returned")
    /\ [](p30.pc # "idle" =>
             /\ 8 * Hour * p30.iterations <= estimated_driving_hours + 16 * Hour
             /\ hours_since_last_break = 0 =>
                    8 * Hour * p30.iterations <= estimated_driving_hours + 8 * Hour)

\* C5 witness: 9 driving hours begun 7.5 hours after the last break take three
\* passes, one more than 9 / 8 + 1 allows.
C5_Witness ==
    /\ p30.pc = "returned"
    /\ estimated_driving_hours = 9 * Hour
    /\ hours_since_last_break = 7 * Hour + HalfHour
    /\ p30.iterations = 3

(***************************************************************************)
(* Claims about the break planner and the trip validator                   *)
(* (SpecBreakCheck, SpecPlanner)                                           *)
(***************************************************************************)

\* C7: the break plan's compliance sub-check passes iff the 30-minute breaks
\* (types 30_minute or combined) number at least driving_hours // 8 and, when
\* driving_hours > 11, the 10_hour breaks number at least
\* (driving_hours - 1) // 11.
C7_SubCheckPassesIff ==
    plan_compliance.status = "returned" =>
        (plan_compliance.is_compliant <=>
            /\ CountBreaks(breaks_arg, {"30_minute", "combined"})
                   >= estimated_driving_hours \div (8 * Hour)
            /\ estimated_driving_hours > 11 * Hour =>
                   CountBreaks(breaks_arg, {"10_hour"})
                       >= (estimated_driving_hours - Hour) \div (11 * Hour))

TripInputsValid ==
    ValidateTripInputs(total_distance_miles, estimated_driving_hours,
                       current_cycle_hours) = ""

\* The breaks plan_trip_breaks hands to its compliance sub-check for the inputs.
PlannedBreaks ==
    OptimizeBreakSchedule(
        PlanMandatoryHosBreaks(estimated_driving_hours, current_cycle_hours,
                               current_duty_period_hours, current_driving_hours,
                               hours_since_last_break)
        \o PlanFuelStops(total_distance_miles, estimated_driving_hours)
        \o PlanOperationalStops,
        estimated_driving_hours)

\* C8: validate_trip_compliance reports is_compliant = true iff the driver is
\* start-eligible, the trip's cycle impact does not exceed the 70-hour limit
\* and the break plan's compliance sub-check passes.
C8_CompliantIff ==
    (trip_compliance.status # "not_called" /\ TripInputsValid) =>
        ((trip_compliance.status = "returned" /\ trip_compliance.is_compliant) <=>
            /\ ValidateTripStartEligibility(current_cycle_hours,
                   current_duty_period_hours, current_driving_hours,
                   hours_since_last_break).eligible
            /\ ~CalculateCycleHoursForTrip(estimated_driving_hours,
                                           current_cycle_hours).exceeds_cycle_limit
            /\ ValidateBreakPlanCompliance(PlannedBreaks, estimated_driving_hours,
                                           current_cycle_hours).is_compliant)

\* C9: for every input that passes trip-input validation plan_trip_breaks
\* returns a complete plan (break list, break count, total break time,
\* compliance result) and does not raise.
C9_ValidInputReturnsPlan ==
    (trip_break_plan.status # "not_called" /\ TripInputsValid) =>
        /\ trip_break_plan.status = "returned"
        /\ {"breaks", "total_breaks", "total_break_time_hours", "compliance"}
               \subseteq DOMAIN trip_break_plan

(***************************************************************************)
(* Claims about DailyLogGeneratorService (SpecLogs)                        *)
(***************************************************************************)

\* Each activity has a positive length and starts where the one before ends.
TimelineIsGapless(activities) ==
    /\ \A n \in 1..Len(activities) : activities[n].duration_minutes > 0
    /\ \A n \in 1..(Len(activities) - 1) :
           ActivityEnd(activities[n]) = activities[n + 1].start_time

RECURSIVE SumDurationMinutes(_)
SumDurationMinutes(records) ==
    IF records = <<>> THEN 0
    ELSE records[1].duration_minutes + SumDurationMinutes(Tail(records))

\* The records of a daily log tile its day.
TilesDay(log) ==
    LET records == log.duty_status_records
        n == Len(records)
        date_start == log.log_date * MinutesPerDay
    IN  /\ n >= 1
        /\ records[1].start_time = date_start
        /\ \A k \in 1..(n - 1) : records[k].end_time = records[k + 1].start_time
        /\ records[n].end_time = date_start + MinutesPerDay
        /\ \A k \in 1..n : /\ records[k].sequence_order = k - 1
                           /\ records[k].start_time < records[k].end_time
        /\ SumDurationMinutes(records) = 1440

NoActivityOn(log_date) ==
    ClipToDate(trip_timeline.activities, log_date * MinutesPerDay,
               (log_date + 1) * MinutesPerDay) = <<>>

\* C1: for a gapless, non-overlapping, minute-aligned timeline the records
\* written for each date exactly tile the day (first starts at 00:00, each ends
\* where the next starts, last ends at the next 00:00, sequence_order runs
\* 0..n-1 in time order, durations sum to 1440 minutes), and a date with no
\* activity yields a single 1440-minute off_duty record.
C1_RecordsTileTheDay ==
    (trip_timeline.status = "returned" /\ TimelineIsGapless(trip_timeline.activities)) =>
        \A i \in 1..Len(daily_logs) :
            /\ TilesDay(daily_logs[i])
            /\ NoActivityOn(daily_logs[i].log_date) =>
                   /\ Len(daily_logs[i].duty_status_records) = 1
                   /\ daily_logs[i].duty_status_records[1].duty_status = "off_duty"
                   /\ daily_logs[i].duty_status_records[1].duration_minutes = 1440

\* A finished run over a gapless timeline that wrote a day of several records
\* clipped at midnight and a day with no activity.
C1_Witness ==
    /\ log_pc = "returned"
    /\ TimelineIsGapless(trip_timeline.activities)
    /\ \E i \in 1..Len(daily_logs) :
           /\ Len(daily_logs[i].duty_status_records) >= 3
           /\ \E a \in 1..Len(trip_timeline.activities) :
                  /\ DateOf(trip_timeline.activities[a].start_time)
                         = daily_logs[i].log_date
                  /\ ActivityEnd(trip_timeline.activities[a])
                         > (daily_logs[i].log_date + 1) * MinutesPerDay
    /\ \E i \in 1..Len(daily_logs) : NoActivityOn(daily_logs[i].log_date)

EmittedDates == {daily_logs[i].log_date : i \in 1..Len(daily_logs)}

\* The dates on which some activity of the final timeline has time.
OverlappedDates ==
    {d \in 0..DateOf(ActivityEnd(trip_timeline.activities[Len(trip_timeline.activities)])) :
        ~NoActivityOn(d)}

\* C6: generate_trip_daily_logs emits exactly one daily log per calendar date
\* between the start of the first and the end of the last interval of the
\* timeline as it stands after the rest breaks were inserted, so every
\* interval of it, shifted ones included, lies inside an emitted daily log.
C6_OneLogPerSpannedDate ==
    log_pc = "returned" =>
        LET activities == trip_timeline.activities
            first_date == DateOf(activities[1].start_time)
            last_date == DateOf(ActivityEnd(activities[Len(activities)]))
        IN  /\ OverlappedDates \subseteq EmittedDates
            /\ EmittedDates \subseteq first_date..last_date
            /\ Cardinality(EmittedDates) = Len(daily_logs)

(***************************************************************************)
(* Claims about plan_trip_breaks run step by step (SpecPlanSteps)          *)
(***************************************************************************)

\* The implied average speed distance / driving_hours lies outside [20, 80] mph.
SpeedOutOfRange ==
    /\ estimated_driving_hours > 0
    /\ \/ total_distance_miles < 20 * estimated_driving_hours
       \/ total_distance_miles > 80 * estimated_driving_hours

RejectedTripInput ==
    \/ total_distance_miles <= 0
    \/ estimated_driving_hours <= 0
    \/ current_cycle_hours < 0
    \/ current_cycle_hours > 70 * Hour
    \/ SpeedOutOfRange

\* C11: plan_trip_breaks fails with an error if distance <= 0, driving_hours
\* <= 0, cycle_hours is outside [0, 70] or distance / driving_hours is outside
\* [20, 80] mph, and it fails before any break is planned: the call never gets
\* past its validation and no mandatory, fuel or operational list is built.
C11_RejectedBeforePlanning ==
    RejectedTripInput =>
        /\ ptb.pc \in {"idle", "raised"}
        /\ ptb.built = {}
        /\ ptb.pc = "raised" =>
               /\ ptb.result.status = "raised"
               /\ ptb.result.error = "RestBreakPlanningError"

\* A call rejected for its implied speed alone.
C11_Witness ==
    /\ ptb.pc = "raised"
    /\ ptb.built = {}
    /\ total_distance_miles > 80 * estimated_driving_hours
    /\ estimated_driving_hours > 0
    /\ current_cycle_hours \in 0..(70 * Hour)

(***************************************************************************)
(* Further claims about HOSCalculatorService (SpecCalc)                    *)
(***************************************************************************)

\* The number of entries of the given type in a violations or warnings list.
CountOfType(entries, type) ==
    Cardinality({n \in 1..Len(entries) : entries[n].type = type})

\* C12: validate_hos_compliance lists a violation for a limit iff usage is
\* strictly above it (cycle > 70, duty > 14, driving > 11, hours since break
\* > 8), a cycle warning iff 65 <= cycle <= 70, a break warning iff
\* 7 <= hours since break <= 8, nothing else, and
\* compliance_score = max(0, 100 - 25 x violations - 5 x warnings).
C12_ViolationsAndWarnings ==
    hos_compliance.status = "returned" =>
        LET v == hos_compliance.violations
            w == hos_compliance.warnings
            One(b) == IF b THEN 1 ELSE 0
        IN  /\ CountOfType(v, "cycle_hours_exceeded")
                   = One(current_cycle_hours > 70 * Hour)
            /\ CountOfType(v, "duty_period_exceeded")
                   = One(current_duty_period_hours > 14 * Hour)
            /\ CountOfType(v, "driving_hours_exceeded")
                   = One(current_driving_hours > 11 * Hour)
            /\ CountOfType(v, "break_required")
                   = One(hours_since_last_break > 8 * Hour)
            /\ CountOfType(w, "approaching_cycle_limit")
                   = One(65 * Hour <= current_cycle_hours
                         /\ current_cycle_hours <= 70 * Hour)
            /\ CountOfType(w, "break_needed_soon")
                   = One(7 * Hour <= hours_since_last_break
                         /\ hours_since_last_break <= 8 * Hour)
            /\ Len(v) = One(current_cycle_hours > 70 * Hour)
                        + One(current_duty_period_hours > 14 * Hour)
                        + One(current_driving_hours > 11 * Hour)
                        + One(hours_since_last_break > 8 * Hour)
            /\ Len(w) = CountOfType(w, "approaching_cycle_limit")
                        + CountOfType(w, "break_needed_soon")
            /\ hos_compliance.compliance_score
                   = Max(0, 100 - 25 * Len(v) - 5 * Len(w))

\* Usage exactly at the cycle and break limits (two warnings, no violation for
\* them) together with a duty period over its limit.
C12_Witness ==
    /\ hos_compliance.status = "returned"
    /\ current_cycle_hours = 70 * Hour
    /\ hours_since_last_break = 8 * Hour
    /\ current_driving_hours = 11 * Hour
    /\ current_duty_period_hours > 14 * Hour
    /\ hos_compliance.total_violations = 1
    /\ hos_compliance.total_warnings = 2
    /\ hos_compliance.compliance_score = 65

\* C13: for every valid state max_continuous_driving_hours is
\* min(available_cycle, available_duty, available_driving, hours_until_break)
\* when hours_until_break > 0 and 0 otherwise; cycle = 65, duty = 10,
\* driving = 9, since_break = 3 gives available 5, 4 and 2, can_drive = true
\* and max_continuous_driving_hours = 2.
C13_MaxContinuousDriving ==
    available.status = "returned" =>
        LET a == available.available_hours
        IN  /\ available.max_continuous_driving_hours
                   = IF a.hours_until_break > 0
                     THEN Min(Min(a.cycle_hours, a.duty_period_hours),
                              Min(a.driving_hours, a.hours_until_break))
                     ELSE 0
            /\ (/\ current_cycle_hours = 65 * Hour
                /\ current_duty_period_hours = 10 * Hour
                /\ current_driving_hours = 9 * Hour
                /\ hours_since_last_break = 3 * Hour) =>
                   /\ a.cycle_hours = 5 * Hour
                   /\ a.duty_period_hours = 4 * Hour
                   /\ a.driving_hours = 2 * Hour
                   /\ available.can_drive
                   /\ available.max_continuous_driving_hours = 2 * Hour

\* The worked example has been calculated.
C13_Witness ==
    /\ available.status = "returned"
    /\ current_cycle_hours = 65 * Hour
    /\ current_duty_period_hours = 10 * Hour
    /\ current_driving_hours = 9 * Hour
    /\ hours_since_last_break = 3 * Hour
    /\ available.max_continuous_driving_hours = 2 * Hour

\* C14: for every valid state each available value is max(0, limit - used):
\* available + used equals 70, 14 and 11 for cycle, duty period and driving
\* whenever the usage does not exceed the limit, and the available value is 0,
\* never negative, when the usage exceeds it.
C14_HeadroomIsLimitMinusUsed ==
    available.status = "returned" =>
        LET a == available.available_hours
        IN  /\ a.cycle_hours = Max(0, 70 * Hour - current_cycle_hours)
            /\ a.duty_period_hours = Max(0, 14 * Hour - current_duty_period_hours)
            /\ a.driving_hours = Max(0, 11 * Hour - current_driving_hours)
            /\ current_cycle_hours <= 70 * Hour =>
                   a.cycle_hours + current_cycle_hours = 70 * Hour
            /\ current_duty_period_hours <= 14 * Hour =>
                   a.duty_period_hours + current_duty_period_hours = 14 * Hour
            /\ current_driving_hours <= 11 * Hour =>
                   a.driving_hours + current_driving_hours = 11 * Hour
            /\ current_cycle_hours > 70 * Hour => a.cycle_hours = 0
            /\ current_duty_period_hours > 14 * Hour => a.duty_period_hours = 0
            /\ current_driving_hours > 11 * Hour => a.driving_hours = 0

\* A valid state over the cycle and duty limits and under the driving limit.
C14_Witness ==
    /\ available.status = "returned"
    /\ current_cycle_hours > 70 * Hour
    /\ current_duty_period_hours > 14 * Hour
    /\ current_driving_hours \in 1..(11 * Hour - 1)
    /\ available.available_hours.cycle_hours = 0
    /\ available.available_hours.driving_hours > 0

(***************************************************************************)
(* Claims about calculate_required_rest (SpecRest)                         *)
(***************************************************************************)

\* C15: calculate_required_rest picks the minimum rest by fixed priority: with
\* needs_30_minute_break it is 0.5h of the 30-minute type even when the
\* driving or duty limit is also reached; otherwise with driving_hours >= 11
\* or duty_period_hours >= 14 it is 10h of the 10-hour type; the 34-hour
\* restart is in rest_options exactly when cycle_hours >= 60 and is never the
\* minimum.
C15_MinimumRestPriority ==
    required_rest.status = "returned" =>
        LET daily == \/ current_driving_hours >= 11 * Hour
                     \/ current_duty_period_hours >= 14 * Hour
        IN  /\ needs_30_minute_break =>
                   /\ required_rest.minimum_required_rest_hours = HalfHour
                   /\ required_rest.required_rest_type = "30_minute_break"
            /\ (~needs_30_minute_break /\ daily) =>
                   /\ required_rest.minimum_required_rest_hours = 10 * Hour
                   /\ required_rest.required_rest_type = "10_hour_off_duty"
            /\ CountOfType(required_rest.rest_options, "34_hour_restart")
                   = IF current_cycle_hours >= 60 * Hour THEN 1 ELSE 0
            /\ required_rest.required_rest_type # "34_hour_restart"
            /\ required_rest.minimum_required_rest_hours # 34 * Hour

\* A break is needed while the driving limit is reached and the cycle is at 60.
C15_Witness ==
    /\ required_rest.status = "returned"
    /\ needs_30_minute_break
    /\ current_driving_hours >= 11 * Hour
    /\ current_cycle_hours = 60 * Hour
    /\ required_rest.required_rest_type = "30_minute_break"
    /\ Len(required_rest.rest_options) = 3

(***************************************************************************)
(* Claims about the break lists of plan_trip_breaks (SpecPlanSteps)        *)
(***************************************************************************)

\* C16: the mandatory-break list holds a 34_hour_restart break, placed at
\* driving hour 0, exactly when calculate_cycle_hours_for_trip reports
\* exceeds_cycle_limit for the same trip, that is exactly when
\* current_cycle_hours + estimated_driving_hours + 2 > 70; and
\* max_possible_trip_hours = 70 - current_cycle_hours.
C16_RestartIffCycleExceeded ==
    "mandatory_breaks" \in ptb.built =>
        LET impact == CalculateCycleHoursForTrip(estimated_driving_hours,
                                                 current_cycle_hours)
            restarts == CountBreaks(ptb.mandatory_breaks, {"34_hour_restart"})
        IN  /\ restarts = IF impact.exceeds_cycle_limit THEN 1 ELSE 0
            /\ impact.exceeds_cycle_limit
                   <=> (current_cycle_hours + estimated_driving_hours + 2 * Hour
                            > 70 * Hour)
            /\ \A n \in 1..Len(ptb.mandatory_breaks) :
                   ptb.mandatory_breaks[n].break_type = "34_hour_restart" =>
                       ptb.mandatory_breaks[n].required_at_driving_hours = 0
            /\ impact.max_possible_trip_hours = 70 * Hour - current_cycle_hours

\* A trip that takes the cycle past 70 hours has its restart planned.
C16_Witness ==
    /\ "mandatory_breaks" \in ptb.built
    /\ current_cycle_hours = 60 * Hour
    /\ estimated_driving_hours = 10 * Hour
    /\ CountBreaks(ptb.mandatory_breaks, {"34_hour_restart"}) = 1

\* The 10_hour breaks of the mandatory list: what plan_daily_rest_periods
\* returned to _plan_mandatory_hos_breaks.
IsTenHour(b) == b.break_type = "10_hour"
DailyRestPeriods == SelectSeq(ptb.mandatory_breaks, IsTenHour)

\* C17: plan_daily_rest_periods returns at most 2 breaks: none when the trip's
\* driving fits in both the remaining 11h driving headroom and the remaining
\* 14h duty headroom; otherwise a first 10_hour break at
\* min(available_driving, available_duty) driving hours, and a second one
\* exactly 11 driving hours after the first iff the driving remaining after
\* the first break exceeds 11h.
C17_DailyRestPeriods ==
    "mandatory_breaks" \in ptb.built =>
        LET rests == DailyRestPeriods
            available_driving == 11 * Hour - current_driving_hours
            available_duty == 14 * Hour - current_duty_period_hours
            first == Min(available_driving, available_duty)
            fits == /\ estimated_driving_hours <= available_driving
                    /\ estimated_driving_hours <= available_duty
        IN  /\ Len(rests) <= 2
            /\ fits => Len(rests) = 0
            /\ ~fits =>
                   /\ Len(rests) >= 1
                   /\ rests[1].required_at_driving_hours = first
                   /\ Len(rests) = 2 <=> estimated_driving_hours - first > 11 * Hour
                   /\ Len(rests) = 2 =>
                          rests[2].required_at_driving_hours = first + 11 * Hour

\* A 24-hour drive from a fresh duty period: rests at 11 and 22 driving hours.
C17_Witness ==
    /\ "mandatory_breaks" \in ptb.built
    /\ Len(DailyRestPeriods) = 2
    /\ DailyRestPeriods[1].required_at_driving_hours = 11 * Hour
    /\ DailyRestPeriods[2].required_at_driving_hours = 22 * Hour

(***************************************************************************)
(* Claims about _optimize_break_schedule (SpecOptimize)                    *)
(***************************************************************************)

\* out is the sorted list with some adjacent pairs merged: every break of out
\* is either the next break of sorted, unchanged, or a combined break standing
\* for the next two breaks of sorted, which are one 30_minute and one
\* fuel_stop with marks at most half an hour apart.
RECURSIVE MergesOnlyPermittedPairs(_, _)
MergesOnlyPermittedPairs(out, sorted) ==
    IF out = <<>> THEN sorted = <<>>
    ELSE \/ /\ Len(sorted) >= 1
            /\ out[1] = sorted[1]
            /\ MergesOnlyPermittedPairs(Tail(out), Tail(sorted))
         \/ /\ Len(sorted) >= 2
            /\ out[1].break_type = "combined"
            /\ {sorted[1].break_type, sorted[2].break_type} = {"30_minute", "fuel_stop"}
            /\ Abs(sorted[2].required_at_driving_hours
                   - sorted[1].required_at_driving_hours) <= HalfHour
            /\ out[1].required_at_driving_hours = sorted[1].required_at_driving_hours
            /\ MergesOnlyPermittedPairs(Tail(out), Tail(Tail(sorted)))

\* C18: _optimize_break_schedule outputs the breaks in non-decreasing order of
\* required_at_driving_hours and merges two breaks only when they are adjacent
\* in that order, their marks differ by at most 0.5h and their types are
\* exactly one 30_minute and one fuel_stop; a 10_hour or 34_hour_restart break
\* is never part of a merge, and every combined break stems from exactly one
\* 30_minute and one fuel_stop.
C18_MergeSafety ==
    optimized.status = "returned" =>
        /\ \A n \in 1..(Len(optimized.breaks) - 1) :
               optimized.breaks[n].required_at_driving_hours
                   <= optimized.breaks[n + 1].required_at_driving_hours
        /\ MergesOnlyPermittedPairs(optimized.breaks, breaks_arg)
        /\ CountBreaks(optimized.breaks, {"10_hour"})
               = CountBreaks(breaks_arg, {"10_hour"})
        /\ CountBreaks(optimized.breaks, {"34_hour_restart"})
               = CountBreaks(breaks_arg, {"34_hour_restart"})

\* A list in which a 30-minute break and the fuel stop that follows it were
\* merged while the 10-hour rest at the same hour mark was left alone.
C18_Witness ==
    /\ optimized.status = "returned"
    /\ Len(breaks_arg) = 4
    /\ Len(optimized.breaks) = 3
    /\ CountBreaks(optimized.breaks, {"combined"}) = 1
    /\ CountBreaks(optimized.breaks, {"10_hour"}) = 1
    /\ \E n \in 1..3 :
           /\ breaks_arg[n].break_type = "30_minute"
           /\ breaks_arg[n + 1].break_type = "fuel_stop"
           /\ breaks_arg[n + 1].required_at_driving_hours
                  - breaks_arg[n].required_at_driving_hours <= HalfHour
           /\ \E k \in 1..4 :
                  /\ breaks_arg[k].break_type = "10_hour"
                  /\ breaks_arg[k].required_at_driving_hours
                         = breaks_arg[n].required_at_driving_hours

(***************************************************************************)
(* Claims about the stops of a plan (SpecPlanSteps)                        *)
(***************************************************************************)

\* The number of breaks whose reason starts with the given text.
CountReason(breaks, text) ==
    Cardinality({n \in 1..Len(breaks) : breaks[n].reason[1] = text})

ExampleTrip ==
    /\ total_distance_miles = 1200 * Mile
    /\ estimated_driving_hours = 10 * Hour
    /\ current_cycle_hours = 50 * Hour
    /\ current_duty_period_hours = 0
    /\ current_driving_hours = 0
    /\ hours_since_last_break = 0

\* C19 as stated: plan_trip_breaks(distance = 1200 miles, driving_hours = 10,
\* cycle_hours = 50, other inputs 0) returns a plan that includes exactly 1 fuel
\* stop (at mile 1000), exactly 1 pickup stop and exactly 1 dropoff stop.
C19_ExampleReturnsPlan ==
    (ExampleTrip /\ ptb.pc \in {"returned", "raised"}) =>
        /\ ptb.pc = "returned"
        /\ CountBreaks(ptb.result.breaks, {"fuel_stop"}) = 1
        /\ \A n \in 1..Len(ptb.result.breaks) :
               ptb.result.breaks[n].break_type = "fuel_stop" =>
                   ptb.result.breaks[n].required_at_trip_miles = 1000 * Mile
        /\ CountReason(ptb.result.breaks, "Pickup time (1 hour per assessment)") = 1
        /\ CountReason(ptb.result.breaks, "Dropoff time (1 hour per assessment)") = 1

\* C19: plan_trip_breaks(distance = 1200 miles, driving_hours = 10,
\* cycle_hours = 50, other inputs 0) is rejected by the trip-input validation
\* (the implied speed of 120 mph is outside [20, 80]) and raises before any
\* stop is planned; _plan_fuel_stops called on 1200 miles and 10 hours yields
\* exactly 1 fuel stop, at mile 1000, and _plan_operational_stops exactly 1
\* pickup stop and 1 dropoff stop.
C19_ExampleRejected ==
    ExampleTrip =>
        /\ ptb.pc \in {"idle", "raised"}
        /\ ptb.built = {}
        /\ ptb.pc = "raised" =>
               /\ ptb.result.error = "RestBreakPlanningError"
               /\ ptb.result.message = "Unrealistic speed implied"
        /\ LET fuel_stops == PlanFuelStops(total_distance_miles,
                                           estimated_driving_hours)
           IN  /\ Len(fuel_stops) = 1
               /\ fuel_stops[1].break_type = "fuel_stop"
               /\ fuel_stops[1].required_at_trip_miles = 1000 * Mile
        /\ Len(PlanOperationalStops) = 2
        /\ CountReason(PlanOperationalStops, "Pickup time (1 hour per assessment)") = 1
        /\ CountReason(PlanOperationalStops, "Dropoff time (1 hour per assessment)") = 1

\* The example trip has been handed to plan_trip_breaks and rejected.
C19_Witness ==
    /\ ExampleTrip
    /\ ptb.pc = "raised"
    /\ ptb.result.message = "Unrealistic speed implied"

\* C20: every plan built by plan_trip_breaks contains one 1-hour pickup stop
\* positioned at mile 0 and one 1-hour dropoff stop positioned at the end of
\* the trip (required_at_trip_miles equal to the trip distance and
\* required_at_driving_hours equal to the trip's driving hours), so the dropoff
\* is the last stop in the sorted break list.
C20_DropoffAtTripEnd ==
    "optimized_breaks" \in ptb.built =>
        LET breaks == ptb.optimized_breaks
            IsPickup(b) == b.reason[1] = "Pickup time (1 hour per assessment)"
            IsDropoff(b) == b.reason[1] = "Dropoff time (1 hour per assessment)"
        IN  /\ Len(SelectSeq(breaks, IsPickup)) = 1
            /\ Len(SelectSeq(breaks, IsDropoff)) = 1
            /\ \A n \in 1..Len(breaks) :
                   /\ IsPickup(breaks[n]) =>
                          /\ breaks[n].duration_hours = 1 * Hour
                          /\ breaks[n].required_at_trip_miles = 0
                   /\ IsDropoff(breaks[n]) =>
                          /\ breaks[n].duration_hours = 1 * Hour
                          /\ breaks[n].required_at_trip_miles = total_distance_miles
                          /\ breaks[n].required_at_driving_hours
                                 = estimated_driving_hours
            /\ IsDropoff(breaks[Len(breaks)])

\* C21: for every daily log whose duty-status record durations sum to exactly
\* 1440 minutes, the four per-status totals of calculate_totals, each rounded
\* to the nearest quarter hour, add up to within 0.1 h of 24, so is_complete is
\* true and validate_compliance lists no incomplete_log violation.
C21_RoundedTotalsComplete ==
    \A i \in 1..Len(daily_logs) :
        SumDurationMinutes(daily_logs[i].duty_status_records) = 1440 =>
            /\ IsComplete(daily_logs[i])
            /\ \A n \in 1..Len(ValidateCompliance(daily_logs[i])) :
                   ValidateCompliance(daily_logs[i])[n] # "incomplete_log"

(***************************************************************************)
(* Claims about repeated calls of the calculator (SpecRecalc)              *)
(***************************************************************************)

\* C22: calling calculate_available_hours twice with the same four input
\* values yields identical output in every field of the result, whenever the
\* two calls are made.
C22_SameInputSameOutput ==
    (previous_available.status # "not_called") => available = previous_available

(***************************************************************************)
(* Claims about the rest breaks and miles of the daily logs (SpecLogs)     *)
(***************************************************************************)

\* Minutes of driving up to the end of activity n since the last non-driving
\* interval of at least 30 minutes.
RECURSIVE ContinuousDrivingAt(_, _)
ContinuousDrivingAt(activities, n) ==
    IF n = 0 THEN 0
    ELSE IF activities[n].type = "driving"
    THEN ContinuousDrivingAt(activities, n - 1) + activities[n].duration_minutes
    ELSE IF activities[n].duration_minutes >= 30 THEN 0
    ELSE ContinuousDrivingAt(activities, n - 1)

\* C23: an inserted 30-minute break sits at the point where continuous driving
\* reaches 480 minutes (the driving interval crossing that point is split
\* around it), so the finished timeline never has more than 480 minutes of
\* driving without a non-driving interval of at least 30 minutes in between.
C23_BreakSplitsDrivingAt480 ==
    trip_timeline.status = "returned" =>
        LET activities == trip_timeline.activities
        IN  \A n \in 1..Len(activities) :
                /\ ContinuousDrivingAt(activities, n) <= 480
                /\ activities[n].description = "30-minute rest break (HOS compliance)" =>
                       /\ n > 1
                       /\ activities[n - 1].type = "driving"
                       /\ ContinuousDrivingAt(activities, n - 1) = 480

RECURSIVE SumTimelineMiles(_)
SumTimelineMiles(activities) ==
    IF activities = <<>> THEN 0
    ELSE activities[1].miles_driven + SumTimelineMiles(Tail(activities))

RECURSIVE SumLogMiles(_)
SumLogMiles(logs) ==
    IF logs = <<>> THEN 0
    ELSE logs[1].total_miles_driving_today + SumLogMiles(Tail(logs))

\* The activity runs over the midnight that ends its first day.
CrossesMidnight(a) == ActivityEnd(a) > (DateOf(a.start_time) + 1) * MinutesPerDay

\* C24: when an activity is clipped at midnight into two fragments its
\* miles_driven goes in full to the first fragment and zero to the continuation,
\* so the miles summed over the daily logs of a trip equal the miles summed over
\* the trip's timeline.
C24_MilesKeptAcrossMidnight ==
    log_pc = "returned" =>
        /\ \A n \in 1..Len(trip_timeline.activities) :
               LET a == trip_timeline.activities[n]
               IN  CrossesMidnight(a) =>
                       \A i \in 1..Len(daily_logs) :
                           \A k \in 1..Len(daily_logs[i].duty_status_records) :
                               LET r == daily_logs[i].duty_status_records[k]
                               IN  /\ (r.start_time = a.start_time /\ r.remarks = a.description)
                                       => r.miles_driven_this_period = a.miles_driven
                                   /\ (/\ r.start_time
                                            = (DateOf(a.start_time) + 1) * MinutesPerDay
                                       /\ r.remarks = a.description)
                                       => r.miles_driven_this_period = 0
        /\ SumLogMiles(daily_logs) = SumTimelineMiles(trip_timeline.activities)

(***************************************************************************)
(* Claims about the validator's start check (SpecEligibility)              *)
(***************************************************************************)

\* The types of the issues of a start verdict.
IssueTypes(verdict) == {verdict.issues[n].type : n \in 1..Len(verdict.issues)}

\* C25: for every driver state the start-eligibility verdict
\* (_validate_trip_start_eligibility returns eligible with no issues) equals the
\* can_drive verdict of the calculator for the same state (_check_can_drive on
\* the state's headroom, and can_drive of calculate_available_hours wherever it
\* returns), and each start issue corresponds to exactly one of the four
\* blocking conditions (cycle, duty period, driving, break) being hit.
C25_StartEligibilityIsCanDrive ==
    start_eligibility.status = "returned" =>
        LET verdict == start_eligibility.verdict
            available_cycle == Max(0, MAX_CYCLE_HOURS - current_cycle_hours)
            available_duty == Max(0, MAX_DUTY_PERIOD_HOURS - current_duty_period_hours)
            available_driving == Max(0, MAX_DRIVING_HOURS - current_driving_hours)
            hours_until_break ==
                Max(0, BREAK_REQUIRED_AFTER_HOURS - hours_since_last_break)
        IN  /\ verdict.eligible = (verdict.issues = <<>>)
            /\ verdict.eligible
                   = CheckCanDrive(available_cycle, available_duty, available_driving,
                                   hours_until_break).can_drive
            /\ available.status = "returned" => verdict.eligible = available.can_drive
            /\ "cycle_limit_reached" \in IssueTypes(verdict) <=> available_cycle <= 0
            /\ "duty_period_limit_reached" \in IssueTypes(verdict) <=> available_duty <= 0
            /\ "driving_limit_reached" \in IssueTypes(verdict) <=> available_driving <= 0
            /\ "break_required" \in IssueTypes(verdict) <=> hours_until_break <= 0
            /\ IssueTypes(verdict) \subseteq
                   {"cycle_limit_reached", "duty_period_limit_reached",
                    "driving_limit_reached", "break_required"}
            /\ Cardinality(IssueTypes(verdict)) = Len(verdict.issues)

\* A driver exactly at the cycle limit and due a break is refused by both, the
\* start check naming the two conditions.
C25_Witness ==
    /\ start_eligibility.status = "returned"
    /\ available.status = "returned"
    /\ current_cycle_hours = MAX_CYCLE_HOURS
    /\ ~available.can_drive
    /\ ~start_eligibility.verdict.eligible
    /\ IssueTypes(start_eligibility.verdict) = {"cycle_limit_reached", "break_required"}

(***************************************************************************)
(* Claims about the optimizer's treatment of its arguments (SpecOptimize)  *)
(***************************************************************************)

\* C26: no core planning step modifies the values passed to it:
\* _optimize_break_schedule leaves the break list it receives (order and
\* contents) as it was, and returns new values only.
C26_ArgumentsLeftUnchanged ==
    [][CallOptimizeBreakSchedule => breaks_arg' = breaks_arg]_vars

(***************************************************************************)
(* Claims about validate_driver_eligibility (SpecDriver)                   *)
(***************************************************************************)

\* C27: whenever calculate_available_hours reports can_drive = false for a
\* valid state, calculate_required_rest called for that state the way
\* validate_driver_eligibility calls it returns a required_rest_type other than
\* None and minimum_required_rest_hours > 0: a blocked driver is never answered
\* with zero required rest.
C27_BlockedDriverGetsRest ==
    (driver_eligibility.status = "returned" /\ ~driver_eligibility.can_drive_now) =>
        /\ driver_eligibility.required_rest.status = "returned"
        /\ driver_eligibility.required_rest.required_rest_type # "None"
        /\ driver_eligibility.required_rest.minimum_required_rest_hours > 0

(***************************************************************************)
(* Claims about the positions of the planned breaks (SpecPlanSteps)        *)
(***************************************************************************)

\* The break lies on the trip: between its start and its last driving hour,
\* at no negative mile.
OnTheTrip(b) ==
    /\ b.required_at_driving_hours >= 0
    /\ b.required_at_driving_hours <= estimated_driving_hours
    /\ b.required_at_trip_miles >= 0

\* C28: for every input accepted by the trip-input validation every break
\* produced by the sub-planners (30-minute breaks, 10-hour rests, 34-hour
\* restart, fuel stops) has required_at_driving_hours within
\* [0, estimated_driving_hours] and required_at_trip_miles >= 0.
C28_BreaksLieOnTheTrip ==
    /\ "mandatory_breaks" \in ptb.built =>
           \A n \in 1..Len(ptb.mandatory_breaks) : OnTheTrip(ptb.mandatory_breaks[n])
    /\ "fuel_stops" \in ptb.built =>
           \A n \in 1..Len(ptb.fuel_stops) : OnTheTrip(ptb.fuel_stops[n])

(***************************************************************************)
(* Claims about the merged breaks (SpecOptimize)                           *)
(***************************************************************************)

\* The combined break c is the merge of the sorted list's breaks n and n + 1,
\* one a 30_minute break and the other a fuel_stop.
MergedFrom(c, sorted, n) ==
    /\ c.break_type = "combined"
    /\ {sorted[n].break_type, sorted[n + 1].break_type} = {"30_minute", "fuel_stop"}
    /\ c.reason = sorted[n].reason \o sorted[n + 1].reason
    /\ c.required_at_driving_hours = sorted[n].required_at_driving_hours

\* C29: whenever _optimize_break_schedule merges a mandatory 30_minute break
\* with a fuel_stop, the combined break is still marked is_mandatory = true,
\* has the longer of the two durations and the higher of the two priorities,
\* and is placed no later than the 30-minute break's own
\* required_at_driving_hours mark, whichever of the two sorts first.
C29_MergedBreakStaysMandatory ==
    optimized.status = "returned" =>
        \A k \in 1..Len(optimized.breaks) :
            \A n \in 1..(Len(breaks_arg) - 1) :
                MergedFrom(optimized.breaks[k], breaks_arg, n) =>
                    LET c == optimized.breaks[k]
                        first == breaks_arg[n]
                        second == breaks_arg[n + 1]
                        thirty == IF first.break_type = "30_minute" THEN first ELSE second
                    IN  /\ c.is_mandatory = TRUE
                        /\ c.duration_hours
                               = Max(first.duration_hours, second.duration_hours)
                        /\ PriorityRank(c.priority)
                               = Max(PriorityRank(first.priority),
                                     PriorityRank(second.priority))
                        /\ c.required_at_driving_hours <= thirty.required_at_driving_hours

(***************************************************************************)
(* Claims about the HOSStatus row and the calculator (SpecStatus)          *)
(***************************************************************************)

\* The joined text of the reasons is the given text.
JoinedIs(reasons, text) ==
    IF reasons = <<>> THEN text = "" ELSE Len(reasons) = 1 /\ reasons[1] = text

\* C30: for the same usage values within the ranges of the row's fields, the
\* saved HOSStatus row and the result of the calculator's
\* calculate_available_hours report the same can_drive, the same
\* violation_reason and the same maximum continuous driving hours.
C30_RowAgreesWithCalculator ==
    (hos_status.status = "saved" /\ available.status = "returned") =>
        /\ hos_status.can_drive = available.can_drive
        /\ JoinedIs(hos_status.violation_reason, available.violation_reason)
        /\ GetMaximumContinuousDrivingHours(hos_status)
               = available.max_continuous_driving_hours

=============================================================================
